---- MODULE Spec2Model ----
(***************************************************************************)
(* A model of the wasm-game-engine core: the entity-component World of     *)
(* src/core/ecs.rs, its per-frame system dispatch, and the fixed-timestep  *)
(* loop of src/physics/physics_world.rs.                                   *)
(*                                                                         *)
(* Representation choices:                                                 *)
(*  - Option<T> is a sequence of length <= 1: None is <<>>, Some(x) is     *)
(*    <<x>>.                                                               *)
(*  - HashMap<TypeId, Box<dyn Component>> is a set of entries              *)
(*    [key, value]; insert and get are written out, so that "one          *)
(*    component per kind" is a property of insert and not of the          *)
(*    representation.                                                      *)
(*  - a component value is [kind, val]: kind is the Rust type of the       *)
(*    value (what TypeId::of::<T>() and the downcast look at), val stands  *)
(*    for the contents of its f32 fields.                                  *)
(***************************************************************************)
EXTENDS Integers, Sequences, FiniteSets, TLC

VARIABLES
    next_entity_id,   \* World.next_entity_id
    entities,         \* World.entities
    components,       \* World.components
    systems,          \* World.systems
    created,          \* history: the identifiers create_entity returned, in call order
    last,             \* history: the last World call, its arguments and what it returned
    stack,            \* the active calls of World::update and System::update, innermost last
    finished,         \* history: the World::update call that returned last, if any
    gravity,          \* PhysicsWorld.gravity, in tenths of a unit
    time_step,        \* PhysicsWorld.time_step, in ticks
    phys_log,         \* history: per PhysicsWorld::update call, its delta, steps and residual
    phys_calls,       \* history: how the PhysicsWorld was made and the calls made on it since
    geo,              \* the collision query made, its arguments and its result
    body,             \* a RigidBody
    body_log,         \* history: how the body was made and the calls made on it since
    input,            \* an InputManager
    input_log,        \* history: the events handed to the InputManager and its updates
    sprites,          \* GameEngine.sprites
    next_sprite_id,   \* GameEngine.next_sprite_id
    sprite_ids,       \* history: the identifiers create_sprite returned, in call order
    engine_last,      \* history: the last GameEngine call, its arguments and what it returned
    loop,             \* the fixed-step loop of PhysicsWorld::update, statement by statement
    camera,           \* a Camera
    rng               \* a Random, the last call made on it and its outcome

world == <<next_entity_id, entities, components, systems>>
dispatch == <<stack, finished>>
physics == <<gravity, time_step, phys_log, phys_calls>>
geometry == <<geo, body, body_log>>
engine == <<sprites, next_sprite_id, sprite_ids, engine_last>>
periphery == <<input, input_log, engine>>
apart == <<loop, camera, rng>>
vars == <<next_entity_id, entities, components, systems, created, last,
          stack, finished, gravity, time_step, phys_log, phys_calls, geo, body, body_log,
          input, input_log, sprites, next_sprite_id, sprite_ids, engine_last,
          loop, camera, rng>>

----------------------------------------------------------------------------
(* Bounds of the model *)

MaxEntities == 2
MaxVal == 2
MaxComponents == 2
MaxSystems == 2
MaxDepth == 4
MaxDt == 2
MaxDelta == 12
MaxUpdates == 3
MaxCoord == 2
MaxRadius == 2
MaxMass == 2
MaxBodyCalls == 3
MaxPhysCalls == 3
MaxInputEvents == 4
MaxSprites == 2
MaxFrame == 40
MaxSteps == 3
MaxLoopCalls == 2
MaxCamera == 2
MaxDraws == 3

----------------------------------------------------------------------------
(* Values *)

None == <<>>
Some(x) == <<x>>

Range(s) == {s[i] : i \in 1..Len(s)}

\* The component types ecs.rs defines.
Kinds == {"Transform", "Sprite", "Velocity"}

ComponentValues == [kind : Kinds, val : 1..MaxVal]

\* Identifiers a caller may pass: 0, which create_entity never returns, and the ones
\* it can return (unknown to the World until it has).
EntityArgs == 0..MaxEntities

\* Frame times a caller may pass to World::update.
DtArgs == 1..MaxDt

TypeIdOf(component) == component.kind

HashMapNew == {}

HashMapInsert(m, k, v) == {p \in m : p.key # k} \cup {[key |-> k, value |-> v]}

HashMapGet(m, k) ==
    IF \E p \in m : p.key = k
    THEN Some((CHOOSE p \in m : p.key = k).value)
    ELSE None

\* as_any().downcast_ref::<T>(): the value itself when it is a T.
Downcast(component, T) == IF component.kind = T THEN Some(component) ELSE None

Call(op, entity, kind, arg, old, ret) ==
    [op |-> op, entity |-> entity, kind |-> kind, arg |-> arg, old |-> old, ret |-> ret]

----------------------------------------------------------------------------
(* World *)

\* The two-level lookup of get_component / get_component_mut in a component store.
Lookup(store, entity, T) ==
    IF entity \notin DOMAIN store THEN None
    ELSE LET found == HashMapGet(store[entity], T)
         IN  IF found = None THEN None ELSE Downcast(found[1], T)

new ==
    /\ next_entity_id = 1
    /\ entities = <<>>
    /\ components = <<>>
    /\ systems = <<>>

\* Variant of create_entity that omits components.insert(entity, HashMap::new()).
create_entity_NoMap ==
    LET entity == next_entity_id
    IN  /\ next_entity_id <= MaxEntities
        /\ next_entity_id' = next_entity_id + 1
        /\ entities' = Append(entities, entity)
        /\ created' = Append(created, entity)
        /\ last' = Call("create_entity", 0, "", None, None, Some(entity))
        /\ UNCHANGED <<components, systems>>

\* Variant of create_entity that inserts the identifier at the front of the list.
create_entity_Front ==
    LET entity == next_entity_id
    IN  /\ next_entity_id <= MaxEntities
        /\ next_entity_id' = next_entity_id + 1
        /\ entities' = <<entity>> \o entities
        /\ components' = [e \in DOMAIN components \cup {entity} |->
                             IF e = entity THEN HashMapNew ELSE components[e]]
        /\ created' = Append(created, entity)
        /\ last' = Call("create_entity", 0, "", None, None, Some(entity))
        /\ UNCHANGED systems

\* Variant of create_entity that returns one less than the counter held.
create_entity_PreIncrement ==
    LET entity == next_entity_id - 1
    IN  /\ next_entity_id <= MaxEntities
        /\ next_entity_id' = next_entity_id + 1
        /\ entities' = Append(entities, entity)
        /\ components' = [e \in DOMAIN components \cup {entity} |->
                             IF e = entity THEN HashMapNew ELSE components[e]]
        /\ created' = Append(created, entity)
        /\ last' = Call("create_entity", 0, "", None, None, Some(entity))
        /\ UNCHANGED systems

\* World::create_entity.  The guard is the model's bound on the number of entities;
\* the u32 counter is far from wrapping within it.
create_entity ==
    LET entity == next_entity_id
    IN  /\ next_entity_id <= MaxEntities
        /\ next_entity_id' = next_entity_id + 1
        /\ entities' = Append(entities, entity)
        /\ components' = [e \in DOMAIN components \cup {entity} |->
                             IF e = entity THEN HashMapNew ELSE components[e]]
        /\ created' = Append(created, entity)
        /\ last' = Call("create_entity", 0, "", None, None, Some(entity))
        /\ UNCHANGED systems

\* Variant of add_component that adds the entry without replacing one of its kind.
add_component_Push(entity, component) ==
    /\ components' =
          IF entity \in DOMAIN components
          THEN [components EXCEPT ![entity] =
                    @ \cup {[key |-> TypeIdOf(component), value |-> component]}]
          ELSE components
    /\ last' = Call("add_component", entity, TypeIdOf(component), Some(component),
                    Lookup(components, entity, TypeIdOf(component)), None)
    /\ UNCHANGED <<next_entity_id, entities, systems, created>>

\* Variant of add_component that creates the map of an unknown entity (entry().or_default()).
add_component_OrDefault(entity, component) ==
    /\ components' =
          [e \in DOMAIN components \cup {entity} |->
              IF e = entity
              THEN HashMapInsert(IF e \in DOMAIN components THEN components[e] ELSE HashMapNew,
                                 TypeIdOf(component), component)
              ELSE components[e]]
    /\ last' = Call("add_component", entity, TypeIdOf(component), Some(component),
                    Lookup(components, entity, TypeIdOf(component)), None)
    /\ UNCHANGED <<next_entity_id, entities, systems, created>>

\* World::add_component: `if let Some(m) = components.get_mut(&entity) { m.insert(..) }`.
add_component(entity, component) ==
    /\ components' =
          IF entity \in DOMAIN components
          THEN [components EXCEPT ![entity] =
                    HashMapInsert(@, TypeIdOf(component), component)]
          ELSE components
    /\ last' = Call("add_component", entity, TypeIdOf(component), Some(component),
                    Lookup(components, entity, TypeIdOf(component)), None)
    /\ UNCHANGED <<next_entity_id, entities, systems, created>>

\* Variant of get_component that yields a default value where the lookup finds none.
get_component_OrDefault(entity, T) ==
    /\ last' = Call("get_component", entity, T, None, None,
                    IF Lookup(components, entity, T) = None
                    THEN Some([kind |-> T, val |-> 1])
                    ELSE Lookup(components, entity, T))
    /\ UNCHANGED <<next_entity_id, entities, components, systems, created>>

get_component(entity, T) ==
    /\ last' = Call("get_component", entity, T, None, None, Lookup(components, entity, T))
    /\ UNCHANGED <<next_entity_id, entities, components, systems, created>>

get_component_mut(entity, T) ==
    /\ last' = Call("get_component_mut", entity, T, None, None, Lookup(components, entity, T))
    /\ UNCHANGED <<next_entity_id, entities, components, systems, created>>

\* Variant of update that makes an entity, as a registered system could.
update_Spawning(delta_time) ==
    /\ Len(systems) = 0
    /\ next_entity_id' = next_entity_id + 1
    /\ entities' = Append(entities, next_entity_id)
    /\ components' = [e \in DOMAIN components \cup {next_entity_id} |->
                         IF e = next_entity_id THEN HashMapNew ELSE components[e]]
    /\ last' = Call("update", 0, "", Some(delta_time), None, None)
    /\ UNCHANGED <<systems, created>>

\* World::update when the system list is empty: `for i in 0..self.systems.len()`
\* runs no iteration.  (With systems in the list the call is the step machine of
\* SpecSys below.)
update(delta_time) ==
    /\ Len(systems) = 0
    /\ last' = Call("update", 0, "", Some(delta_time), None, None)
    /\ UNCHANGED <<next_entity_id, entities, components, systems, created>>

----------------------------------------------------------------------------
(* PhysicsWorld.  Time is counted in ticks of 1/300 s, so that the fixed step   *)
(* of 1/60 s is 5 ticks and a frame of 0.02 s is 6; gravity in tenths.           *)

FixedStep == 5
StandardGravity == -98

\* Frame times a host may pass, in ticks: negative, zero, below, at and above
\* one and two fixed steps.
DeltaArgs == (-1)..MaxDelta

PhysicsWorld_new ==
    /\ gravity = StandardGravity
    /\ time_step = FixedStep

\* physics_step(dt) is a placeholder that changes no state; the model counts it.
physics_step(steps) == steps + 1

\* Variant of the loop with the test accumulator > time_step.
RECURSIVE fixed_step_loop_Strict(_, _, _)
fixed_step_loop_Strict(accumulator, step, steps) ==
    IF accumulator > step
    THEN fixed_step_loop_Strict(accumulator - step, step, physics_step(steps))
    ELSE [residual |-> accumulator, steps |-> steps]

\* while accumulator >= self.time_step { physics_step; accumulator -= time_step }
RECURSIVE fixed_step_loop(_, _, _)
fixed_step_loop(accumulator, step, steps) ==
    IF accumulator >= step
    THEN fixed_step_loop(accumulator - step, step, physics_step(steps))
    ELSE [residual |-> accumulator, steps |-> steps]

\* PhysicsWorld::update: the accumulator is a local that starts at 0.0 in every call.
PhysicsWorld_update(delta_time) ==
    LET accumulator == 0 + delta_time
        done == fixed_step_loop(accumulator, time_step, 0)
    IN  /\ phys_log' = Append(phys_log, [delta_time |-> delta_time,
                                         steps |-> done.steps,
                                         residual |-> done.residual])
        /\ UNCHANGED <<gravity, time_step>>

----------------------------------------------------------------------------
(* Collision geometry (collision.rs).  Coordinates and sizes are integers, which *)
(* f32 holds exactly; a centre, x + width / 2.0, is kept doubled so that it is   *)
(* an integer too, and so is a contact point.  Signed zero is not told apart.    *)

Min(x, y) == IF x <= y THEN x ELSE y
Max(x, y) == IF x >= y THEN x ELSE y
Abs(x) == IF x < 0 THEN -x ELSE x

AABB(x, y, width, height) == [x |-> x, y |-> y, width |-> width, height |-> height]

min_x(aabb) == aabb.x
min_y(aabb) == aabb.y
max_x(aabb) == aabb.x + aabb.width
max_y(aabb) == aabb.y + aabb.height

\* Twice the centre.
center_x(aabb) == 2 * aabb.x + aabb.width
center_y(aabb) == 2 * aabb.y + aabb.height

contains_point(aabb, px, py) ==
    /\ px >= min_x(aabb) /\ px <= max_x(aabb)
    /\ py >= min_y(aabb) /\ py <= max_y(aabb)

\* Variant of intersects in which boxes that only touch do not intersect.
intersects_Strict(a, b) ==
    ~(\/ max_x(a) <= min_x(b)
      \/ min_x(a) >= max_x(b)
      \/ max_y(a) <= min_y(b)
      \/ min_y(a) >= max_y(b))

intersects(a, b) ==
    ~(\/ max_x(a) < min_x(b)
      \/ min_x(a) > max_x(b)
      \/ max_y(a) < min_y(b)
      \/ min_y(a) > max_y(b))

aabb_vs_aabb(a, b) == intersects(a, b)

\* Variant of the early return that also rejects boxes that only touch.
no_collision_Touching(a, b) ==
    \/ ~intersects(a, b)
    \/ max_x(a) = min_x(b) \/ max_x(b) = min_x(a)
    \/ max_y(a) = min_y(b) \/ max_y(b) = min_y(a)

\* if !a.intersects(b) { return None; }
no_collision(a, b) == ~intersects(a, b)

\* Variant of the overlap that takes the length of the common interval.
axis_overlap_Common(a_min, a_max, b_min, b_max) == Min(a_max, b_max) - Max(a_min, b_min)

\* (a.max - b.min).min(b.max - a.min), for either axis.
axis_overlap(a_min, a_max, b_min, b_max) == Min(a_max - b_min, b_max - a_min)

\* Variant of the choice of axis that takes X on a tie.
separate_on_x_Tie(x_overlap, y_overlap) == x_overlap <= y_overlap

\* if x_overlap < y_overlap { separate on X } else { separate on Y }
separate_on_x(x_overlap, y_overlap) == x_overlap < y_overlap

\* Variant of the normal that is -1 on equal centres too.
separation_normal_Reversed(a_center, b_center) == IF a_center < b_center THEN 1 ELSE -1

separation_normal_Tie(a_center, b_center) == IF a_center <= b_center THEN -1 ELSE 1

\* if a.center() < b.center() { -1.0 } else { 1.0 }, for either axis.
separation_normal(a_center, b_center) == IF a_center < b_center THEN -1 ELSE 1

CollisionInfo(penetration_x, penetration_y, normal_x, normal_y, contact_x, contact_y) ==
    [penetration_x |-> penetration_x, penetration_y |-> penetration_y,
     normal_x |-> normal_x, normal_y |-> normal_y,
     contact_x |-> contact_x, contact_y |-> contact_y]

\* CollisionInfo::resolve_aabb_collision.  contact_x and contact_y are doubled.
resolve_aabb_collision(a, b) ==
    IF no_collision(a, b) THEN None
    ELSE LET x_overlap == axis_overlap(min_x(a), max_x(a), min_x(b), max_x(b))
             y_overlap == axis_overlap(min_y(a), max_y(a), min_y(b), max_y(b))
         IN  IF separate_on_x(x_overlap, y_overlap)
             THEN LET normal_x == separation_normal(center_x(a), center_x(b))
                  IN  Some(CollisionInfo(
                          x_overlap * normal_x, 0, normal_x, 0,
                          IF normal_x > 0 THEN 2 * max_x(a) ELSE 2 * min_x(a),
                          center_y(a)))
             ELSE LET normal_y == separation_normal(center_y(a), center_y(b))
                  IN  Some(CollisionInfo(
                          0, y_overlap * normal_y, 0, normal_y,
                          center_x(a),
                          IF normal_y > 0 THEN 2 * max_y(a) ELSE 2 * min_y(a)))

\* The boxes of the model: every box on a small grid, with sizes from -1 (a box
\* with max < min) and 0 up, and the boxes of the worked examples.
GridBoxes ==
    {AABB(x, y, w, h) : x \in 0..MaxCoord, y \in 0..MaxCoord,
                        w \in (-1)..MaxCoord, h \in (-1)..MaxCoord}

ExampleBoxes ==
    {AABB(0, 0, 10, 10), AABB(5, 0, 10, 10), AABB(5, 5, 10, 10),
     AABB(20, 20, 5, 5), AABB(5, -1, 2, 2)}

Boxes == GridBoxes \cup ExampleBoxes

\* No collision query has been made.
NoQuery == geo = [op |-> "none"]

\* A caller asks CollisionInfo::resolve_aabb_collision(a, b).
query_resolve_aabb_collision(a, b) ==
    geo' = [op |-> "resolve_aabb_collision", a |-> a, b |-> b,
               result |-> resolve_aabb_collision(a, b)]

\* A caller asks CollisionDetection::aabb_vs_aabb(a, b).
query_aabb_vs_aabb(a, b) ==
    geo' = [op |-> "aabb_vs_aabb", a |-> a, b |-> b, result |-> aabb_vs_aabb(a, b)]

\* No body has been made.
\* circle_vs_aabb: the centre is brought within the extents by max, then min.
nearest_on_axis(c, lo, hi) == Min(Max(c, lo), hi)

within_radius_Strict(distance_squared, radius) == distance_squared < radius * radius

within_radius(distance_squared, radius) == distance_squared <= radius * radius

circle_vs_aabb(cx, cy, radius, aabb) ==
    LET closest_x == nearest_on_axis(cx, min_x(aabb), max_x(aabb))
        closest_y == nearest_on_axis(cy, min_y(aabb), max_y(aabb))
        dx == cx - closest_x
        dy == cy - closest_y
        distance_squared == dx * dx + dy * dy
    IN  within_radius(distance_squared, radius)

\* An f32: a finite number, an infinity, or NaN. Ray distances are held doubled, so
\* that the inverse of a direction component of 2 is exact.
Fin(v) == [k |-> "fin", v |-> v]
PInf == [k |-> "pinf"]
NInf == [k |-> "ninf"]
NaN == [k |-> "nan"]
Zero == Fin(0)

\* a < b on f32: false when either is NaN.
Lt(a, b) ==
    /\ a.k # "nan" /\ b.k # "nan"
    /\ \/ a.k = "ninf" /\ b.k # "ninf"
       \/ a.k = "fin" /\ b.k = "pinf"
       \/ a.k = "fin" /\ b.k = "fin" /\ a.v < b.v

\* f32::min and f32::max: a NaN operand is ignored.
f32_min(a, b) == IF a.k = "nan" THEN b ELSE IF b.k = "nan" THEN a ELSE IF Lt(b, a) THEN b ELSE a
f32_max(a, b) == IF a.k = "nan" THEN b ELSE IF b.k = "nan" THEN a ELSE IF Lt(a, b) THEN b ELSE a

\* (edge - ray) * (1.0 / ray_d): with ray_d = 0 the inverse is +infinity, and the
\* product is an infinity of the sign of the difference, or NaN for 0 * infinity.
slab_distance(diff, ray_d) ==
    IF ray_d = 0
    THEN IF diff > 0 THEN PInf ELSE IF diff < 0 THEN NInf ELSE NaN
    ELSE IF ray_d > 0 THEN Fin((2 * diff) \div ray_d) ELSE Fin((-(2 * diff)) \div (-ray_d))

hit_distance_Entry(tmin, tmax) == tmin

hit_distance(tmin, tmax) == IF Lt(tmin, Zero) THEN tmax ELSE tmin

ray_vs_aabb(ray_x, ray_y, ray_dx, ray_dy, aabb) ==
    LET t1 == slab_distance(min_x(aabb) - ray_x, ray_dx)
        t2 == slab_distance(max_x(aabb) - ray_x, ray_dx)
        t3 == slab_distance(min_y(aabb) - ray_y, ray_dy)
        t4 == slab_distance(max_y(aabb) - ray_y, ray_dy)
        tmin == f32_max(f32_min(t1, t2), f32_min(t3, t4))
        tmax == f32_min(f32_max(t1, t2), f32_max(t3, t4))
    IN  IF Lt(tmax, Zero) THEN None
        ELSE IF Lt(tmax, tmin) THEN None
        ELSE Some(hit_distance(tmin, tmax))

\* Direction components: those whose inverse, times a whole difference, is a whole
\* number of halves.
Directions == {-2, -1, 0, 1, 2}
Origins == 0..MaxCoord
Centres == (-1)..(MaxCoord + 1)
Radii == (-1)..MaxRadius

query_ray_vs_aabb(ray_x, ray_y, ray_dx, ray_dy, aabb) ==
    geo' = [op |-> "ray_vs_aabb", ray_x |-> ray_x, ray_y |-> ray_y,
            ray_dx |-> ray_dx, ray_dy |-> ray_dy, aabb |-> aabb,
            result |-> ray_vs_aabb(ray_x, ray_y, ray_dx, ray_dy, aabb)]

query_circle_vs_aabb(cx, cy, radius, aabb) ==
    geo' = [op |-> "circle_vs_aabb", cx |-> cx, cy |-> cy, radius |-> radius, aabb |-> aabb,
            result |-> circle_vs_aabb(cx, cy, radius, aabb)]

NoBody ==
    /\ body = None
    /\ body_log = <<>>

\* Exact fractions <<numerator, denominator>> in lowest terms, for the f32 fields
\* of a body.
RECURSIVE GCD(_, _)
GCD(m, n) == IF n = 0 THEN m ELSE GCD(n, m % n)

Rat(n, d) ==
    LET g == GCD(Abs(n), Abs(d))
        sign == IF d < 0 THEN -1 ELSE 1
    IN  <<(sign * n) \div g, (sign * d) \div g>>

Whole(n) == <<n, 1>>
RatAdd(p, q) == Rat(p[1] * q[2] + q[1] * p[2], p[2] * q[2])
RatSub(p, q) == Rat(p[1] * q[2] - q[1] * p[2], p[2] * q[2])
RatMul(p, q) == Rat(p[1] * q[1], p[2] * q[2])
RatDiv(p, q) == Rat(p[1] * q[2], p[2] * q[1])

\* force / self.mass, for the masses a body can have.
over_mass(force, mass) == IF mass.k = "pinf" THEN Whole(0) ELSE RatDiv(Whole(force), Whole(mass.v))

RigidBody_new(mass) ==
    [mass |-> Fin(mass),
     velocity_x |-> Whole(0), velocity_y |-> Whole(0),
     acceleration_x |-> Whole(0), acceleration_y |-> Whole(0),
     is_static |-> FALSE,
     bounciness |-> Rat(8, 10),
     friction |-> Rat(1, 10)]

static_body_Dynamic == [RigidBody_new(1) EXCEPT !.bounciness = Whole(0), !.friction = Whole(1)]

static_body ==
    [mass |-> PInf,
     velocity_x |-> Whole(0), velocity_y |-> Whole(0),
     acceleration_x |-> Whole(0), acceleration_y |-> Whole(0),
     is_static |-> TRUE,
     bounciness |-> Whole(0),
     friction |-> Whole(1)]

apply_force(self, force_x, force_y) ==
    IF ~self.is_static /\ Lt(Zero, self.mass)
    THEN [self EXCEPT !.acceleration_x = RatAdd(@, over_mass(force_x, self.mass)),
                      !.acceleration_y = RatAdd(@, over_mass(force_y, self.mass))]
    ELSE self

RigidBody_update_KeepAcceleration(self, dt) ==
    IF ~self.is_static
    THEN LET damping == RatSub(Whole(1), RatMul(self.friction, Whole(dt)))
         IN  [self EXCEPT
                 !.velocity_x = RatMul(RatAdd(@, RatMul(self.acceleration_x, Whole(dt))), damping),
                 !.velocity_y = RatMul(RatAdd(@, RatMul(self.acceleration_y, Whole(dt))), damping)]
    ELSE self

RigidBody_update(self, dt) ==
    IF ~self.is_static
    THEN LET damping == RatSub(Whole(1), RatMul(self.friction, Whole(dt)))
         IN  [self EXCEPT
                 !.velocity_x = RatMul(RatAdd(@, RatMul(self.acceleration_x, Whole(dt))), damping),
                 !.velocity_y = RatMul(RatAdd(@, RatMul(self.acceleration_y, Whole(dt))), damping),
                 !.acceleration_x = Whole(0),
                 !.acceleration_y = Whole(0)]
    ELSE self

\* What callers pass.
MassArgs == 0..MaxMass
ForceArgs == {<<4, 0>>, <<0, -2>>, <<-3, 1>>}
FrictionArgs == {Whole(0), Rat(1, 2)}
BodyDtArgs == 0..MaxDt

BodyCall(op, args) == [op |-> op, args |-> args]

\* A body is in hand and more calls on it are to come.
BodyLive == body # None /\ Len(body_log) <= MaxBodyCalls

body_new(mass) ==
    /\ NoBody
    /\ body' = Some(RigidBody_new(mass))
    /\ body_log' = <<BodyCall("new", <<mass>>)>>

body_static_body ==
    /\ NoBody
    /\ body' = Some(static_body)
    /\ body_log' = <<BodyCall("static_body", <<>>)>>

\* body.friction = friction: the field is public.
body_set_friction(friction) ==
    /\ BodyLive
    /\ body' = Some([body[1] EXCEPT !.friction = friction])
    /\ body_log' = Append(body_log, BodyCall("set_friction", <<friction>>))

body_apply_force(force_x, force_y) ==
    /\ BodyLive
    /\ body' = Some(apply_force(body[1], force_x, force_y))
    /\ body_log' = Append(body_log, BodyCall("apply_force", <<force_x, force_y>>))

body_update(dt) ==
    /\ BodyLive
    /\ body' = Some(RigidBody_update(body[1], dt))
    /\ body_log' = Append(body_log, BodyCall("update", <<dt>>))

----------------------------------------------------------------------------
(* InputManager *)

KeyArgs == {32, 87}
ButtonArgs == {0, 2}
MousePoints == {<<0, 0>>, <<3, 4>>}

InputManager_new ==
    [keys_pressed |-> {}, keys_just_pressed |-> {}, keys_just_released |-> {},
     mouse_position |-> <<0, 0>>,
     mouse_buttons_pressed |-> {}, mouse_buttons_just_pressed |-> {},
     mouse_buttons_just_released |-> {}]

\* Variant of update that clears the key sets only.
InputManager_update_KeysOnly(self) ==
    [self EXCEPT !.keys_just_pressed = {}, !.keys_just_released = {}]

InputManager_update(self) ==
    [self EXCEPT !.keys_just_pressed = {}, !.keys_just_released = {},
                 !.mouse_buttons_just_pressed = {}, !.mouse_buttons_just_released = {}]

\* Variant of handle_key_down that marks the key on every down event.
handle_key_down_Always(self, key_code) ==
    [self EXCEPT !.keys_just_pressed = @ \cup {key_code},
                 !.keys_pressed = @ \cup {key_code}]

handle_key_down(self, key_code) ==
    [self EXCEPT !.keys_just_pressed =
                     IF key_code \notin self.keys_pressed THEN @ \cup {key_code} ELSE @,
                 !.keys_pressed = @ \cup {key_code}]

handle_key_up(self, key_code) ==
    [self EXCEPT !.keys_just_released =
                     IF key_code \in self.keys_pressed THEN @ \cup {key_code} ELSE @,
                 !.keys_pressed = @ \ {key_code}]

handle_mouse_move(self, x, y) == [self EXCEPT !.mouse_position = <<x, y>>]

handle_mouse_down(self, button, x, y) ==
    [self EXCEPT !.mouse_buttons_just_pressed =
                     IF button \notin self.mouse_buttons_pressed THEN @ \cup {button} ELSE @,
                 !.mouse_buttons_pressed = @ \cup {button}]

handle_mouse_up(self, button, x, y) ==
    [self EXCEPT !.mouse_buttons_just_released =
                     IF button \in self.mouse_buttons_pressed THEN @ \cup {button} ELSE @,
                 !.mouse_buttons_pressed = @ \ {button}]

NoInput ==
    /\ input = InputManager_new
    /\ input_log = <<>>

EngineCall(op, args, ret) == [op |-> op, args |-> args, ret |-> ret]

\* GameEngine::new: no sprite registered, the next sprite id is 1.
GameEngine_new ==
    /\ sprites = HashMapNew
    /\ next_sprite_id = 1
    /\ sprite_ids = <<>>
    /\ engine_last = EngineCall("new", <<>>, None)

NoPeriphery == NoInput /\ GameEngine_new

InputEvent(op, args) == [op |-> op, args |-> args]

\* One call on the InputManager, recorded.
input_call(op, args, after) ==
    /\ Len(input_log) < MaxInputEvents
    /\ input' = after
    /\ input_log' = Append(input_log, InputEvent(op, args))

\* GameEngine::update: the time manager, the physics world, the ECS world (with
\* its empty system list), then the input manager.
GameEngine_update(delta_time) ==
    /\ PhysicsWorld_update(delta_time)
    /\ update(delta_time)
    /\ input_call("GameEngine::update", <<delta_time>>, InputManager_update(input))


----------------------------------------------------------------------------
(* PhysicsWorld::update statement by statement, on f32 values.  A finite f32   *)
(* is a sign, a 24-bit significand m and an exponent e, with value m * 2^e;    *)
(* subtraction rounds to nearest, ties to even, as the hardware does.          *)

RECURSIVE Pow2(_)
Pow2(n) == IF n = 0 THEN 1 ELSE 2 * Pow2(n - 1)

\* The significand brought into [2^23, 2^24); zero has significand and exponent 0.
RECURSIVE f32_normal(_, _, _)
f32_normal(neg, m, e) ==
    IF m = 0 THEN [neg |-> FALSE, m |-> 0, e |-> 0]
    ELSE IF m < Pow2(23) THEN f32_normal(neg, 2 * m, e - 1)
    ELSE IF m >= Pow2(24) THEN f32_normal(neg, m \div 2, e + 1)
    ELSE [neg |-> neg, m |-> m, e |-> e]

\* The f32 nearest to n / 1024 (exact for the n used).
f32_of_1024ths(n) == f32_normal(n < 0, Abs(n), -10)

\* The f32 of a whole number below 2^24.
f32_of_whole(n) == f32_normal(n < 0, Abs(n), 0)

\* 1.0 / 60.0 in f32: 8947849 * 2^-29.
one_sixtieth == f32_normal(FALSE, (Pow2(29) + 30) \div 60, -29)

f32_is_zero(a) == a.m = 0
f32_is_negative(a) == a.neg /\ a.m # 0

\* |a| >= |b|
f32_magnitude_ge(a, b) ==
    \/ b.m = 0
    \/ a.m # 0 /\ (a.e > b.e \/ (a.e = b.e /\ a.m >= b.m))

\* a >= b
f32_ge(a, b) ==
    IF f32_is_negative(a) THEN f32_is_negative(b) /\ f32_magnitude_ge(b, a)
    ELSE IF f32_is_negative(b) THEN TRUE
    ELSE f32_magnitude_ge(a, b)

\* a < b
f32_lt(a, b) == ~f32_ge(a, b)

\* a - b for a >= b > 0, rounded to nearest, ties to even.  With k the
\* difference of the exponents, the exact result is T - r / 2^(k-1) in units of
\* half a unit in the last place of a.
f32_sub(a, b) ==
    LET k == a.e - b.e
    IN  IF k = 0 THEN f32_normal(FALSE, a.m - b.m, a.e)
        ELSE IF k > 26 THEN a
        ELSE LET unit == Pow2(k - 1)
                 q == b.m \div unit
                 r == b.m % unit
                 T == 2 * a.m - q
                 h == T \div 2
                 stays == IF r = 0 THEN T >= Pow2(24) ELSE T > Pow2(24)
                 finer == IF 2 * r < unit THEN T
                          ELSE IF 2 * r > unit THEN T - 1
                          ELSE IF T % 2 = 0 THEN T ELSE T - 1
                 coarser == IF T % 2 = 0 \/ r > 0 THEN h
                            ELSE IF h % 2 = 0 THEN h ELSE h + 1
             IN  IF stays THEN f32_normal(FALSE, coarser, a.e)
                 ELSE f32_normal(FALSE, finer, a.e - 1)

\* Frame times in 1/1024 s, and one of about a week in seconds.
FrameTimes == {f32_of_1024ths(n) : n \in (-1)..MaxFrame} \cup {f32_of_whole(600000)}

\* physics_step calls are counted up to MaxSteps; the count stays there after.
counted(steps) == IF steps < MaxSteps THEN physics_step(steps) ELSE steps

\* No update is running.
loop_idle ==
    loop = [pc |-> "idle", time_step |-> one_sixtieth, delta_time |-> f32_of_whole(0),
            accumulator |-> f32_of_whole(0), steps |-> 0, calls |-> 0]

\* let mut accumulator = 0.0; accumulator += current_time
loop_enter(delta_time) ==
    /\ loop.pc = "idle"
    /\ loop.calls < MaxLoopCalls
    /\ loop' = [loop EXCEPT !.pc = "while", !.delta_time = delta_time,
                            !.accumulator = delta_time, !.steps = 0,
                            !.calls = @ + 1]

\* while accumulator >= self.time_step: the test holds and the body is entered.
loop_test ==
    /\ loop.pc = "while"
    /\ f32_ge(loop.accumulator, loop.time_step)
    /\ loop' = [loop EXCEPT !.pc = "body"]

\* self.physics_step(self.time_step); accumulator -= self.time_step
loop_body ==
    /\ loop.pc = "body"
    /\ loop' = [loop EXCEPT !.pc = "while",
                            !.accumulator = f32_sub(loop.accumulator, loop.time_step),
                            !.steps = counted(loop.steps)]

\* The test fails and update returns.
loop_leave ==
    /\ loop.pc = "while"
    /\ f32_lt(loop.accumulator, loop.time_step)
    /\ loop' = [loop EXCEPT !.pc = "idle"]

\* No Camera and no Random have been made.
NoApart ==
    /\ loop_idle
    /\ camera = None
    /\ rng = None


----------------------------------------------------------------------------
(* The World as its callers drive it *)

\* Every component held in a store, with the entity holding it.
StoreEntries(store) == UNION {{<<e, p>> : p \in store[e]} : e \in DOMAIN store}

\* The model's cap on the size of the component store: a call that would add an
\* entry (not one that replaces or is dropped) is made only below the cap.
WithinCap(entity, component) ==
    (entity \in DOMAIN components /\ Lookup(components, entity, TypeIdOf(component)) = None)
        => Cardinality(StoreEntries(components)) < MaxComponents

\* No World::update is running.
NoDispatch ==
    /\ stack = <<>>
    /\ finished = None

Init ==
    /\ new
    /\ created = <<>>
    /\ last = Call("new", 0, "", None, None, None)
    /\ NoDispatch
    /\ PhysicsWorld_new
    /\ phys_log = <<>>
    /\ phys_calls = <<>>
    /\ NoQuery
    /\ NoBody
    /\ NoPeriphery
    /\ NoApart

Next ==
    \/ create_entity /\ UNCHANGED <<dispatch, physics, geometry, periphery, apart>>
    \/ \E entity \in EntityArgs, component \in ComponentValues :
           /\ WithinCap(entity, component)
           /\ add_component(entity, component)
           /\ UNCHANGED <<dispatch, physics, geometry, periphery, apart>>
    \/ \E entity \in EntityArgs, T \in Kinds :
           get_component(entity, T) /\ UNCHANGED <<dispatch, physics, geometry, periphery, apart>>
    \/ \E entity \in EntityArgs, T \in Kinds :
           get_component_mut(entity, T) /\ UNCHANGED <<dispatch, physics, geometry, periphery, apart>>
    \/ \E delta_time \in DtArgs : update(delta_time) /\ UNCHANGED <<dispatch, physics, geometry, periphery, apart>>

Spec == Init /\ [][Next]_vars

----------------------------------------------------------------------------
(* The World's helpers for sprites, over components with their fields.  An f32 *)
(* field holds a whole number standing for its value.                           *)

Transform_new(x, y) ==
    [kind |-> "Transform", x |-> x, y |-> y, rotation |-> 0, scale_x |-> 1, scale_y |-> 1]

Sprite_new(width, height) ==
    [kind |-> "Sprite", width |-> width, height |-> height,
     color_r |-> 1, color_g |-> 1, color_b |-> 1, color_a |-> 1, texture_id |-> None]

\* Components a caller may add: as the constructors make them, and with the public
\* fields the constructors fix set to other values.
TransformArgs ==
    {Transform_new(1, 1),
     [kind |-> "Transform", x |-> 2, y |-> 2, rotation |-> 3, scale_x |-> 2, scale_y |-> 2]}

SpriteArgs ==
    {Sprite_new(1, 2),
     [kind |-> "Sprite", width |-> 2, height |-> 1,
      color_r |-> 0, color_g |-> 0, color_b |-> 0, color_a |-> 0, texture_id |-> Some(7)]}

PositionArgs == {<<1, 2>>, <<3, 1>>}
ColorArgs == {<<2, 3, 4, 5>>}
SizeArgs == {<<1, 2>>}

\* An assignment through the &mut T that get_component_mut hands out: the value
\* boxed under the key is replaced where it lies.
write_through(m, k, v) == {IF p.key = k THEN [p EXCEPT !.value = v] ELSE p : p \in m}

create_sprite_entity(x, y, width, height) ==
    LET entity == next_entity_id
        with_transform == HashMapInsert(HashMapNew, "Transform", Transform_new(x, y))
        with_sprite == HashMapInsert(with_transform, "Sprite", Sprite_new(width, height))
    IN  /\ next_entity_id <= MaxEntities
        /\ next_entity_id' = next_entity_id + 1
        /\ entities' = Append(entities, entity)
        /\ components' = [e \in DOMAIN components \cup {entity} |->
                             IF e = entity THEN with_sprite ELSE components[e]]
        /\ created' = Append(created, entity)
        /\ last' = Call("create_sprite_entity", 0, "", Some(<<x, y, width, height>>), None,
                        Some(entity))
        /\ UNCHANGED systems

\* Variant of set_position that stores a fresh Transform::new(x, y).
set_position_Reset(entity, x, y) ==
    LET found == Lookup(components, entity, "Transform")
    IN  /\ components' =
              IF found = None THEN components
              ELSE [components EXCEPT ![entity] = write_through(@, "Transform", Transform_new(x, y))]
        /\ last' = Call("set_position", entity, "Transform", Some(<<x, y>>), found, None)
        /\ UNCHANGED <<next_entity_id, entities, systems, created>>

set_position(entity, x, y) ==
    LET found == Lookup(components, entity, "Transform")
    IN  /\ components' =
              IF found = None THEN components
              ELSE [components EXCEPT ![entity] =
                        write_through(@, "Transform", [found[1] EXCEPT !.x = x, !.y = y])]
        /\ last' = Call("set_position", entity, "Transform", Some(<<x, y>>), found, None)
        /\ UNCHANGED <<next_entity_id, entities, systems, created>>

set_color(entity, r, g, b, a) ==
    LET found == Lookup(components, entity, "Sprite")
    IN  /\ components' =
              IF found = None THEN components
              ELSE [components EXCEPT ![entity] =
                        write_through(@, "Sprite",
                                      [found[1] EXCEPT !.color_r = r, !.color_g = g,
                                                       !.color_b = b, !.color_a = a])]
        /\ last' = Call("set_color", entity, "Sprite", Some(<<r, g, b, a>>), found, None)
        /\ UNCHANGED <<next_entity_id, entities, systems, created>>

NextSprite ==
    \/ create_entity /\ UNCHANGED <<dispatch, physics, geometry, periphery, apart>>
    \/ \E entity \in EntityArgs, component \in TransformArgs \cup SpriteArgs :
           /\ WithinCap(entity, component)
           /\ add_component(entity, component)
           /\ UNCHANGED <<dispatch, physics, geometry, periphery, apart>>
    \/ \E position \in PositionArgs, size \in SizeArgs :
           /\ Cardinality(StoreEntries(components)) < MaxComponents
           /\ create_sprite_entity(position[1], position[2], size[1], size[2])
           /\ UNCHANGED <<dispatch, physics, geometry, periphery, apart>>
    \/ \E entity \in EntityArgs, position \in PositionArgs :
           set_position(entity, position[1], position[2]) /\ UNCHANGED <<dispatch, physics, geometry, periphery, apart>>
    \/ \E entity \in EntityArgs, color \in ColorArgs :
           /\ set_color(entity, color[1], color[2], color[3], color[4])
           /\ UNCHANGED <<dispatch, physics, geometry, periphery, apart>>

SpecSprite == Init /\ [][NextSprite]_vars

----------------------------------------------------------------------------
(* World::update over a list of systems.  ecs.rs has no method that adds a       *)
(* system, so the list is a parameter of this specification: every list of up   *)
(* to MaxSystems implementations of the System trait.  Three implementations    *)
(* stand for what a System::update may do with the World it is handed: nothing, *)
(* create an entity, or call World::update again.                               *)

SystemImpls == {"idle", "spawn", "reenter"}

UpdateFrame(n, delta_time) ==
    [fn |-> "World::update", i |-> 0, n |-> n, delta_time |-> delta_time,
     invoked |-> <<>>, sys |-> 0, pc |-> "loop"]

SystemFrame(index, delta_time) ==
    [fn |-> "System::update", i |-> 0, n |-> 0, delta_time |-> delta_time,
     invoked |-> <<>>, sys |-> index, pc |-> "body"]

Top == stack[Len(stack)]

Pop(s) == SubSeq(s, 1, Len(s) - 1)

ReplaceTop(s, frame) == [s EXCEPT ![Len(s)] = frame]

\* A call of World::update enters the loop: 0..self.systems.len() is fixed here.
\* Variant of the loop range that stops one short: 0..len - 1.
update_enter_SkipLast(s, delta_time) ==
    Append(s, UpdateFrame(IF Len(systems) > 0 THEN Len(systems) - 1 ELSE 0, delta_time))

update_enter(s, delta_time) == Append(s, UpdateFrame(Len(systems), delta_time))

\* The host calls World::update(delta_time).
update_call(delta_time) ==
    /\ stack = <<>>
    /\ stack' = update_enter(stack, delta_time)
    /\ UNCHANGED <<world, created, last, finished>>

\* One loop iteration: systems[i].update(self, delta_time) is called.
update_invoke_system ==
    /\ stack # <<>>
    /\ Top.fn = "World::update"
    /\ Top.i < Top.n
    /\ Top.i + 1 <= Len(systems)
    /\ stack' = Append(
           ReplaceTop(stack, [Top EXCEPT !.invoked = Append(@, <<Top.i + 1, Top.delta_time>>)]),
           SystemFrame(Top.i + 1, Top.delta_time))
    /\ UNCHANGED <<world, created, last, finished>>

\* The body of the running system's update, by implementation.
system_update_body ==
    /\ stack # <<>>
    /\ Top.fn = "System::update"
    /\ Top.pc = "body"
    /\ \/ /\ systems[Top.sys] = "idle"
          /\ stack' = ReplaceTop(stack, [Top EXCEPT !.pc = "return"])
          /\ UNCHANGED <<world, created, last, finished>>
       \/ /\ systems[Top.sys] = "spawn"
          /\ create_entity
          /\ stack' = ReplaceTop(stack, [Top EXCEPT !.pc = "return"])
          /\ UNCHANGED finished
       \/ /\ systems[Top.sys] = "spawn"
          /\ next_entity_id > MaxEntities
          /\ stack' = ReplaceTop(stack, [Top EXCEPT !.pc = "return"])
          /\ UNCHANGED <<world, created, last, finished>>
       \/ /\ systems[Top.sys] = "reenter"
          /\ Len(stack) + 2 <= MaxDepth
          /\ stack' = update_enter(ReplaceTop(stack, [Top EXCEPT !.pc = "return"]),
                                    Top.delta_time)
          /\ UNCHANGED <<world, created, last, finished>>
       \/ /\ systems[Top.sys] = "reenter"
          /\ Len(stack) + 2 > MaxDepth
          /\ stack' = ReplaceTop(stack, [Top EXCEPT !.pc = "return"])
          /\ UNCHANGED <<world, created, last, finished>>

\* The running system's update returns; the loop moves to the next index.
system_update_return ==
    /\ stack # <<>>
    /\ Top.fn = "System::update"
    /\ Top.pc = "return"
    /\ LET below == Pop(stack)
       IN  stack' = ReplaceTop(below, [below[Len(below)] EXCEPT !.i = @ + 1])
    /\ UNCHANGED <<world, created, last, finished>>

\* The loop is over: World::update returns to its caller.
update_return ==
    /\ stack # <<>>
    /\ Top.fn = "World::update"
    /\ Top.i >= Top.n
    /\ finished' = Some([delta_time |-> Top.delta_time, invoked |-> Top.invoked,
                          depth |-> Len(stack)])
    /\ stack' = Pop(stack)
    /\ UNCHANGED <<world, created, last>>

InitSys ==
    /\ next_entity_id = 1
    /\ entities = <<>>
    /\ components = <<>>
    /\ systems \in UNION {[1..n -> SystemImpls] : n \in 0..MaxSystems}
    /\ created = <<>>
    /\ last = Call("new", 0, "", None, None, None)
    /\ NoDispatch
    /\ PhysicsWorld_new
    /\ phys_log = <<>>
    /\ phys_calls = <<>>
    /\ NoQuery
    /\ NoBody
    /\ NoPeriphery
    /\ NoApart

NextSys ==
    \/ \E delta_time \in DtArgs : update_call(delta_time) /\ UNCHANGED <<physics, geometry, periphery, apart>>
    \/ update_invoke_system /\ UNCHANGED <<physics, geometry, periphery, apart>>
    \/ system_update_body /\ UNCHANGED <<physics, geometry, periphery, apart>>
    \/ system_update_return /\ UNCHANGED <<physics, geometry, periphery, apart>>
    \/ update_return /\ UNCHANGED <<physics, geometry, periphery, apart>>

SpecSys == InitSys /\ [][NextSys]_vars

----------------------------------------------------------------------------
(* The PhysicsWorld as its host drives it *)

NextPhys ==
    /\ Len(phys_log) < MaxUpdates
    /\ \E delta_time \in DeltaArgs : PhysicsWorld_update(delta_time)
    /\ UNCHANGED <<world, created, last, dispatch, geometry, phys_calls, periphery, apart>>

SpecPhys == Init /\ [][NextPhys]_vars

----------------------------------------------------------------------------
(* The collision functions as a caller uses them: one query on arguments drawn  *)
(* from the boxes of the model.                                                 *)

----------------------------------------------------------------------------
(* The PhysicsWorld as its callers drive it: constructors, gravity and the      *)
(* collision queries it forwards.                                               *)

GravityArgs == {-16, 0, 98}
FrameArgs == {-1, 0, FixedStep, MaxDelta}
QueryBoxes == {AABB(0, 0, 2, 2), AABB(1, 1, 2, 2), AABB(3, 3, 1, 1)}
QueryPoints == {<<0, 0>>, <<3, 3>>}

PhysCall(op, args, ret) == [op |-> op, args |-> args, ret |-> ret]

PhysicsWorld_new_with_gravity(g) ==
    /\ gravity = g
    /\ time_step = FixedStep

\* Variant of set_gravity that adds to the gravity held.
set_gravity_Add(g) ==
    /\ gravity' = gravity + g
    /\ phys_calls' = Append(phys_calls, PhysCall("set_gravity", <<g>>, None))
    /\ UNCHANGED <<time_step, phys_log>>

set_gravity(g) ==
    /\ gravity' = g
    /\ phys_calls' = Append(phys_calls, PhysCall("set_gravity", <<g>>, None))
    /\ UNCHANGED <<time_step, phys_log>>

get_gravity ==
    /\ phys_calls' = Append(phys_calls, PhysCall("get_gravity", <<>>, Some(gravity)))
    /\ UNCHANGED <<gravity, time_step, phys_log>>

check_collision(aabb1, aabb2) ==
    /\ phys_calls' = Append(phys_calls, PhysCall("check_collision", <<aabb1, aabb2>>,
                                                 Some(aabb_vs_aabb(aabb1, aabb2))))
    /\ UNCHANGED <<gravity, time_step, phys_log>>

point_in_aabb(point_x, point_y, aabb) ==
    /\ phys_calls' = Append(phys_calls, PhysCall("point_in_aabb", <<point_x, point_y, aabb>>,
                                                 Some(contains_point(aabb, point_x, point_y))))
    /\ UNCHANGED <<gravity, time_step, phys_log>>

physics_world_update(delta_time) ==
    /\ PhysicsWorld_update(delta_time)
    /\ phys_calls' = Append(phys_calls, PhysCall("update", <<delta_time>>, None))

InitGravity ==
    /\ new
    /\ created = <<>>
    /\ last = Call("new", 0, "", None, None, None)
    /\ NoDispatch
    /\ phys_log = <<>>
    /\ NoQuery
    /\ NoBody
    /\ NoPeriphery
    /\ NoApart
    /\ \/ PhysicsWorld_new /\ phys_calls = <<PhysCall("new", <<>>, None)>>
       \/ \E g \in GravityArgs :
              /\ PhysicsWorld_new_with_gravity(g)
              /\ phys_calls = <<PhysCall("new_with_gravity", <<g>>, None)>>

NextGravity ==
    \/ /\ Len(phys_calls) <= MaxPhysCalls
       /\ \E g \in GravityArgs : set_gravity(g)
       /\ UNCHANGED <<world, created, last, dispatch, geometry, periphery, apart>>
    \/ /\ Len(phys_calls) <= MaxPhysCalls
       /\ get_gravity
       /\ UNCHANGED <<world, created, last, dispatch, geometry, periphery, apart>>
    \/ /\ Len(phys_calls) <= MaxPhysCalls
       /\ \E delta_time \in FrameArgs : physics_world_update(delta_time)
       /\ UNCHANGED <<world, created, last, dispatch, geometry, periphery, apart>>
    \/ /\ Len(phys_calls) <= MaxPhysCalls
       /\ \E aabb1 \in QueryBoxes, aabb2 \in QueryBoxes : check_collision(aabb1, aabb2)
       /\ UNCHANGED <<world, created, last, dispatch, geometry, periphery, apart>>
    \/ /\ Len(phys_calls) <= MaxPhysCalls
       /\ \E point \in QueryPoints, aabb \in QueryBoxes : point_in_aabb(point[1], point[2], aabb)
       /\ UNCHANGED <<world, created, last, dispatch, geometry, periphery, apart>>

SpecGravity == InitGravity /\ [][NextGravity]_vars

NextGeo ==
    \/ /\ NoQuery
       /\ \E a \in Boxes, b \in Boxes : query_resolve_aabb_collision(a, b)
       /\ UNCHANGED <<world, created, last, dispatch, physics, body, body_log, periphery, apart>>
    \/ /\ NoQuery
       /\ \E a \in Boxes, b \in Boxes : query_aabb_vs_aabb(a, b)
       /\ UNCHANGED <<world, created, last, dispatch, physics, body, body_log, periphery, apart>>
    \/ /\ NoQuery
       /\ \E ray_x \in Origins, ray_y \in Origins, ray_dx \in Directions, ray_dy \in Directions,
             aabb \in Boxes : query_ray_vs_aabb(ray_x, ray_y, ray_dx, ray_dy, aabb)
       /\ UNCHANGED <<world, created, last, dispatch, physics, body, body_log, periphery, apart>>
    \/ /\ NoQuery
       /\ \E cx \in Centres, cy \in Centres, radius \in Radii, aabb \in Boxes :
             query_circle_vs_aabb(cx, cy, radius, aabb)
       /\ UNCHANGED <<world, created, last, dispatch, physics, body, body_log, periphery, apart>>

SpecGeo == Init /\ [][NextGeo]_vars

NextBody ==
    \/ /\ \E mass \in MassArgs : body_new(mass)
       /\ UNCHANGED <<world, created, last, dispatch, physics, geo, periphery, apart>>
    \/ /\ body_static_body
       /\ UNCHANGED <<world, created, last, dispatch, physics, geo, periphery, apart>>
    \/ /\ \E friction \in FrictionArgs : body_set_friction(friction)
       /\ UNCHANGED <<world, created, last, dispatch, physics, geo, periphery, apart>>
    \/ /\ \E force \in ForceArgs : body_apply_force(force[1], force[2])
       /\ UNCHANGED <<world, created, last, dispatch, physics, geo, periphery, apart>>
    \/ /\ \E dt \in BodyDtArgs : body_update(dt)
       /\ UNCHANGED <<world, created, last, dispatch, physics, geo, periphery, apart>>

SpecBody == Init /\ [][NextBody]_vars

NextInput ==
    \/ /\ \E key_code \in KeyArgs :
              input_call("handle_key_down", <<key_code>>, handle_key_down(input, key_code))
       /\ UNCHANGED <<world, created, last, dispatch, physics, geometry, engine, apart>>
    \/ /\ \E key_code \in KeyArgs :
              input_call("handle_key_up", <<key_code>>, handle_key_up(input, key_code))
       /\ UNCHANGED <<world, created, last, dispatch, physics, geometry, engine, apart>>
    \/ /\ \E point \in MousePoints :
              input_call("handle_mouse_move", point, handle_mouse_move(input, point[1], point[2]))
       /\ UNCHANGED <<world, created, last, dispatch, physics, geometry, engine, apart>>
    \/ /\ \E button \in ButtonArgs, point \in MousePoints :
              input_call("handle_mouse_down", <<button>> \o point,
                         handle_mouse_down(input, button, point[1], point[2]))
       /\ UNCHANGED <<world, created, last, dispatch, physics, geometry, engine, apart>>
    \/ /\ \E button \in ButtonArgs, point \in MousePoints :
              input_call("handle_mouse_up", <<button>> \o point,
                         handle_mouse_up(input, button, point[1], point[2]))
       /\ UNCHANGED <<world, created, last, dispatch, physics, geometry, engine, apart>>
    \/ /\ input_call("update", <<>>, InputManager_update(input))
       /\ UNCHANGED <<world, created, last, dispatch, physics, geometry, engine, apart>>
    \/ /\ \E delta_time \in DtArgs : GameEngine_update(delta_time)
       /\ UNCHANGED <<dispatch, geometry, phys_calls, engine, apart>>

SpecInput == Init /\ [][NextInput]_vars

----------------------------------------------------------------------------
(* GameEngine: its sprites, over the World it owns.  The World is a private     *)
(* field, reached through the engine's methods only.                            *)

SpriteIdArgs == 0..MaxSprites

\* The frame time the host passes: one fixed step.
EngineFrameArgs == {FixedStep}

\* Variant of create_sprite that hands out the identifier after the increment.
GameEngine_create_sprite_PostIncrement(x, y, width, height) ==
    LET sprite_id == next_sprite_id + 1
    IN  /\ next_sprite_id <= MaxSprites
        /\ create_sprite_entity(x, y, width, height)
        /\ sprites' = HashMapInsert(sprites, sprite_id, next_entity_id)
        /\ next_sprite_id' = next_sprite_id + 1
        /\ sprite_ids' = Append(sprite_ids, sprite_id)
        /\ engine_last' = EngineCall("create_sprite", <<x, y, width, height>>, Some(sprite_id))

\* GameEngine::create_sprite.  The guards are the model's bounds on the number of
\* sprites and of entities.
GameEngine_create_sprite(x, y, width, height) ==
    LET sprite_id == next_sprite_id
    IN  /\ next_sprite_id <= MaxSprites
        /\ create_sprite_entity(x, y, width, height)
        /\ sprites' = HashMapInsert(sprites, sprite_id, next_entity_id)
        /\ next_sprite_id' = next_sprite_id + 1
        /\ sprite_ids' = Append(sprite_ids, sprite_id)
        /\ engine_last' = EngineCall("create_sprite", <<x, y, width, height>>, Some(sprite_id))

GameEngine_set_sprite_position(sprite_id, x, y) ==
    LET found == HashMapGet(sprites, sprite_id)
    IN  /\ IF found # None
           THEN set_position(found[1], x, y)
           ELSE UNCHANGED <<world, created, last>>
        /\ engine_last' = EngineCall("set_sprite_position", <<sprite_id, x, y>>, None)
        /\ UNCHANGED <<sprites, next_sprite_id, sprite_ids>>

GameEngine_set_sprite_color(sprite_id, r, g, b, a) ==
    LET found == HashMapGet(sprites, sprite_id)
    IN  /\ IF found # None
           THEN set_color(found[1], r, g, b, a)
           ELSE UNCHANGED <<world, created, last>>
        /\ engine_last' = EngineCall("set_sprite_color", <<sprite_id, r, g, b, a>>, None)
        /\ UNCHANGED <<sprites, next_sprite_id, sprite_ids>>

NextEngine ==
    \/ /\ \E position \in PositionArgs, size \in SizeArgs :
              GameEngine_create_sprite(position[1], position[2], size[1], size[2])
       /\ UNCHANGED <<dispatch, physics, geometry, input, input_log, apart>>
    \/ /\ \E sprite_id \in SpriteIdArgs, position \in PositionArgs :
              GameEngine_set_sprite_position(sprite_id, position[1], position[2])
       /\ UNCHANGED <<dispatch, physics, geometry, input, input_log, apart>>
    \/ /\ \E sprite_id \in SpriteIdArgs, color \in ColorArgs :
              GameEngine_set_sprite_color(sprite_id, color[1], color[2], color[3], color[4])
       /\ UNCHANGED <<dispatch, physics, geometry, input, input_log, apart>>
    \/ /\ Len(phys_log) < MaxUpdates
       /\ \E delta_time \in EngineFrameArgs : GameEngine_update(delta_time)
       /\ engine_last' = EngineCall("update", <<>>, None)
       /\ UNCHANGED <<dispatch, geometry, phys_calls, sprites, next_sprite_id, sprite_ids, apart>>

SpecEngine == Init /\ [][NextEngine]_vars

----------------------------------------------------------------------------
(* The fixed-step loop as it runs: a call enters it, each pass of the while is *)
(* two steps of the model, and a step that can be taken is taken in the end.    *)

NextLoop ==
    \/ \E delta_time \in FrameTimes :
           loop_enter(delta_time)
           /\ UNCHANGED <<world, created, last, dispatch, physics, geometry, periphery, camera, rng>>
    \/ loop_test
       /\ UNCHANGED <<world, created, last, dispatch, physics, geometry, periphery, camera, rng>>
    \/ loop_body
       /\ UNCHANGED <<world, created, last, dispatch, physics, geometry, periphery, camera, rng>>
    \/ loop_leave
       /\ UNCHANGED <<world, created, last, dispatch, physics, geometry, periphery, camera, rng>>

SpecLoop ==
    Init /\ [][NextLoop]_vars /\ WF_loop(loop_test) /\ WF_loop(loop_body) /\ WF_loop(loop_leave)

----------------------------------------------------------------------------
(* Camera: position, target and up with the cached view matrix.  Vectors are   *)
(* triples of whole numbers; a matrix entry n / sqrt(u) is kept as the pair    *)
(* of n and u, and is NaN where the code divides by a length of zero.          *)

vec3_add(a, b) == <<a[1] + b[1], a[2] + b[2], a[3] + b[3]>>
vec3_sub(a, b) == <<a[1] - b[1], a[2] - b[2], a[3] - b[3]>>
vec3_dot(a, b) == a[1] * b[1] + a[2] * b[2] + a[3] * b[3]
vec3_cross(a, b) == <<a[2] * b[3] - a[3] * b[2],
                      a[3] * b[1] - a[1] * b[3],
                      a[1] * b[2] - a[2] * b[1]>>

\* n / sqrt(u)
over_length(n, u) == IF u = 0 THEN NaN ELSE [k |-> "surd", n |-> n, u |-> u]

Mat4_identity ==
    <<over_length(1, 1), over_length(0, 1), over_length(0, 1), over_length(0, 1),
      over_length(0, 1), over_length(1, 1), over_length(0, 1), over_length(0, 1),
      over_length(0, 1), over_length(0, 1), over_length(1, 1), over_length(0, 1),
      over_length(0, 1), over_length(0, 1), over_length(0, 1), over_length(1, 1)>>

\* Mat4::look_at: f = (center - eye) / |center - eye|, s = (f x up) / |f x up|,
\* u = s x f; the rows hold s, u, -f and the dot products with eye.
Mat4_look_at(eye, center, up) ==
    LET f == vec3_sub(center, eye)
        f_len == vec3_dot(f, f)
        s == vec3_cross(f, up)
        s_len == vec3_dot(s, s)
        u == vec3_cross(s, f)
        u_len == s_len * f_len
    IN  <<over_length(s[1], s_len), over_length(u[1], u_len), over_length(-f[1], f_len), over_length(0, 1),
          over_length(s[2], s_len), over_length(u[2], u_len), over_length(-f[2], f_len), over_length(0, 1),
          over_length(s[3], s_len), over_length(u[3], u_len), over_length(-f[3], f_len), over_length(0, 1),
          over_length(-vec3_dot(s, eye), s_len), over_length(-vec3_dot(u, eye), u_len),
          over_length(vec3_dot(f, eye), f_len), over_length(1, 1)>>

EyeArgs == {<<0, 0, 0>>, <<1, 0, 1>>}
TargetArgs == {<<0, 0, -1>>, <<1, 0, 1>>}
UpArgs == {<<0, 1, 0>>, <<1, 0, 0>>}
DeltaVecArgs == {<<1, 0, 0>>}

\* The model keeps the camera within MaxCamera of the origin on every axis.
InView(v) == \A i \in 1..3 : Abs(v[i]) <= MaxCamera

\* update_view
Camera_update_view(c) ==
    [c EXCEPT !.view_matrix = Mat4_look_at(c.position, c.target, c.up), !.dirty = FALSE]

\* new_orthographic and new_perspective
Camera_new(is_orthographic) ==
    /\ camera = None
    /\ camera' = Some([Camera_update_view([position |-> <<0, 0, 0>>,
                                            target |-> <<0, 0, -1>>,
                                            up |-> <<0, 1, 0>>,
                                            view_matrix |-> Mat4_identity,
                                            is_orthographic |-> is_orthographic,
                                            dirty |-> TRUE,
                                            op |-> "new",
                                            ret |-> None])
                       EXCEPT !.op = "new"])

Camera_set_position(position) ==
    /\ camera # None
    /\ camera' = Some([camera[1] EXCEPT !.position = position, !.dirty = TRUE,
                                        !.op = "set_position", !.ret = None])

Camera_set_target(target) ==
    /\ camera # None
    /\ camera' = Some([camera[1] EXCEPT !.target = target, !.dirty = TRUE,
                                        !.op = "set_target", !.ret = None])

Camera_look_at(eye, center, up) ==
    /\ camera # None
    /\ camera' = Some([camera[1] EXCEPT !.position = eye, !.target = center, !.up = up,
                                        !.dirty = TRUE, !.op = "look_at", !.ret = None])

\* Variant of translate that leaves the dirty flag as it is.
Camera_translate_KeepFlag(delta) ==
    /\ camera # None
    /\ InView(vec3_add(camera[1].position, delta)) /\ InView(vec3_add(camera[1].target, delta))
    /\ camera' = Some([camera[1] EXCEPT !.position = vec3_add(@, delta),
                                        !.target = vec3_add(@, delta),
                                        !.op = "translate", !.ret = None])

Camera_translate(delta) ==
    /\ camera # None
    /\ InView(vec3_add(camera[1].position, delta)) /\ InView(vec3_add(camera[1].target, delta))
    /\ camera' = Some([camera[1] EXCEPT !.position = vec3_add(@, delta),
                                        !.target = vec3_add(@, delta),
                                        !.dirty = TRUE,
                                        !.op = "translate", !.ret = None])

Camera_get_view_matrix ==
    /\ camera # None
    /\ LET after == IF camera[1].dirty THEN Camera_update_view(camera[1]) ELSE camera[1]
       IN  camera' = Some([after EXCEPT !.op = "get_view_matrix",
                                        !.ret = Some(after.view_matrix)])

Camera_get_position ==
    /\ camera # None
    /\ camera' = Some([camera[1] EXCEPT !.op = "get_position", !.ret = Some(camera[1].position)])

Camera_get_target ==
    /\ camera # None
    /\ camera' = Some([camera[1] EXCEPT !.op = "get_target", !.ret = Some(camera[1].target)])

NextCamera ==
    \/ \E is_orthographic \in BOOLEAN :
           Camera_new(is_orthographic)
           /\ UNCHANGED <<world, created, last, dispatch, physics, geometry, periphery, loop, rng>>
    \/ \E position \in EyeArgs :
           Camera_set_position(position)
           /\ UNCHANGED <<world, created, last, dispatch, physics, geometry, periphery, loop, rng>>
    \/ \E target \in TargetArgs :
           Camera_set_target(target)
           /\ UNCHANGED <<world, created, last, dispatch, physics, geometry, periphery, loop, rng>>
    \/ \E eye \in EyeArgs, center \in TargetArgs, up \in UpArgs :
           Camera_look_at(eye, center, up)
           /\ UNCHANGED <<world, created, last, dispatch, physics, geometry, periphery, loop, rng>>
    \/ \E delta \in DeltaVecArgs :
           Camera_translate(delta)
           /\ UNCHANGED <<world, created, last, dispatch, physics, geometry, periphery, loop, rng>>
    \/ Camera_get_view_matrix
       /\ UNCHANGED <<world, created, last, dispatch, physics, geometry, periphery, loop, rng>>
    \/ Camera_get_position
       /\ UNCHANGED <<world, created, last, dispatch, physics, geometry, periphery, loop, rng>>
    \/ Camera_get_target
       /\ UNCHANGED <<world, created, last, dispatch, physics, geometry, periphery, loop, rng>>

SpecCamera == Init /\ [][NextCamera]_vars

----------------------------------------------------------------------------
(* Random: a linear congruential generator on a u64 state.  The state is four  *)
(* limbs of 16 bits, lowest first; i32 values keep their 32 bits, and where    *)
(* the arithmetic overflows the outcome is the one of the build: a panic with  *)
(* overflow checks on, the wrapped value with them off.                        *)

Limb == Pow2(16)
Multiplier == 1664525
Increment == 1013904223

i32_MAX == (Pow2(30) - 1) + Pow2(30)
i32_MIN == (-Pow2(30)) - Pow2(30)

\* The u64 of a value below 2^31.
u64_of(n) == <<n % Limb, n \div Limb, 0, 0>>

\* The u64 hi * 2^16 + lo.
u64_of_halves(hi, lo) == <<lo, hi, 0, 0>>

\* wrapping_mul by a multiplier below 2^31
u64_wrapping_mul(x, c) ==
    LET c0 == c % Limb
        c1 == c \div Limb
        p0 == x[1] * c0
        p1 == x[2] * c0 + x[1] * c1 + (p0 \div Limb)
        p2 == x[3] * c0 + x[2] * c1 + (p1 \div Limb)
        p3 == x[4] * c0 + x[3] * c1 + (p2 \div Limb)
    IN  <<p0 % Limb, p1 % Limb, p2 % Limb, p3 % Limb>>

\* wrapping_add of an addend below 2^31
u64_wrapping_add(x, c) ==
    LET q0 == x[1] + (c % Limb)
        q1 == x[2] + (c \div Limb) + (q0 \div Limb)
        q2 == x[3] + (q1 \div Limb)
        q3 == x[4] + (q2 \div Limb)
    IN  <<q0 % Limb, q1 % Limb, q2 % Limb, q3 % Limb>>

\* state as i32: the low 32 bits, read as two's complement
u64_as_i32(x) ==
    IF x[2] >= Limb \div 2 THEN (x[2] - Limb) * Limb + x[1] ELSE x[2] * Limb + x[1]

\* The step of the generator.
lcg(state) == u64_wrapping_add(u64_wrapping_mul(state, Multiplier), Increment)

returned(v) == [panic |-> FALSE, value |-> v]
panicked == [panic |-> TRUE]

\* a - b in i32
i32_sub(a, b, overflow_checks) ==
    IF b < 0 /\ a > i32_MAX + b
    THEN IF overflow_checks THEN panicked ELSE returned(((a - 1) - (i32_MAX + b)) + i32_MIN)
    ELSE IF b > 0 /\ a < i32_MIN + b
    THEN IF overflow_checks THEN panicked ELSE returned(i32_MAX + (a - (i32_MIN + b) + 1))
    ELSE returned(a - b)

\* a + b in i32
i32_add(a, b, overflow_checks) ==
    IF b > 0 /\ a > i32_MAX - b
    THEN IF overflow_checks THEN panicked ELSE returned((a - (i32_MAX - b) - 1) + i32_MIN)
    ELSE IF b < 0 /\ a < i32_MIN - b
    THEN IF overflow_checks THEN panicked ELSE returned(i32_MAX + (a - (i32_MIN - b) + 1))
    ELSE returned(a + b)

\* i32::abs
i32_abs(x, overflow_checks) ==
    IF x = i32_MIN THEN (IF overflow_checks THEN panicked ELSE returned(i32_MIN))
    ELSE returned(Abs(x))

\* |x| mod |d| for d # 0, where |i32::MIN| = 2^31 is not an i32
magnitude_mod(x, d) ==
    IF d = i32_MIN THEN (IF x = i32_MIN THEN 0 ELSE Abs(x))
    ELSE IF x = i32_MIN THEN ((i32_MAX % Abs(d)) + 1) % Abs(d)
    ELSE Abs(x) % Abs(d)

\* x % d in i32: the remainder has the sign of x; a zero divisor and
\* i32::MIN % -1 panic in every build.
i32_rem(x, d) ==
    IF d = 0 \/ (x = i32_MIN /\ d = -1) THEN panicked
    ELSE returned(IF x < 0 THEN -magnitude_mod(x, d) ELSE magnitude_mod(x, d))

\* min + (x.abs() % (max - min)), operand by operand
range_of(x, min, max, overflow_checks) ==
    LET magnitude == i32_abs(x, overflow_checks)
        width == i32_sub(max, min, overflow_checks)
    IN  IF magnitude.panic \/ width.panic THEN panicked
        ELSE LET offset == i32_rem(magnitude.value, width.value)
             IN  IF offset.panic THEN panicked
                 ELSE i32_add(min, offset.value, overflow_checks)

SeedArgs == {u64_of(42), u64_of_halves(42454, 4069), u64_of_halves(7672, 32072),
             <<4069, 42454, 1, 0>>}

RangeArgs == {<<0, 10>>, <<5, 5>>, <<7, 3>>, <<-3, 4>>, <<i32_MIN, i32_MAX>>,
              <<-Pow2(30), Pow2(30)>>, <<i32_MIN, 1>>}

\* Random::from_seed; Random::new takes its seed from the clock, or 42.
Random_from_seed(seed) ==
    /\ rng = None
    /\ rng' = Some([state |-> seed, draws |-> 0, op |-> "from_seed",
                    args |-> <<>>, drawn |-> None, ret |-> None])

Random_next_i32 ==
    /\ rng # None
    /\ rng[1].draws < MaxDraws
    /\ LET state == lcg(rng[1].state)
       IN  rng' = Some([state |-> state, draws |-> rng[1].draws + 1, op |-> "next_i32",
                        args |-> <<>>, drawn |-> Some(u64_as_i32(state)),
                        ret |-> Some(returned(u64_as_i32(state)))])

Random_range_i32(min, max, overflow_checks) ==
    /\ rng # None
    /\ rng[1].draws < MaxDraws
    /\ IF min >= max
       THEN rng' = Some([rng[1] EXCEPT !.op = "range_i32", !.args = <<min, max>>,
                                       !.drawn = None, !.ret = Some(returned(min))])
       ELSE LET state == lcg(rng[1].state)
                x == u64_as_i32(state)
            IN  rng' = Some([state |-> state, draws |-> rng[1].draws + 1,
                             op |-> "range_i32", args |-> <<min, max>>,
                             drawn |-> Some(x),
                             ret |-> Some(range_of(x, min, max, overflow_checks))])

NextRandom ==
    \/ \E seed \in SeedArgs :
           Random_from_seed(seed)
           /\ UNCHANGED <<world, created, last, dispatch, physics, geometry, periphery, loop, camera>>
    \/ Random_next_i32
       /\ UNCHANGED <<world, created, last, dispatch, physics, geometry, periphery, loop, camera>>
    \/ \E range \in RangeArgs, overflow_checks \in BOOLEAN :
           Random_range_i32(range[1], range[2], overflow_checks)
           /\ UNCHANGED <<world, created, last, dispatch, physics, geometry, periphery, loop, camera>>

SpecRandom == Init /\ [][NextRandom]_vars

----------------------------------------------------------------------------
(* World: identifiers, component storage *)

\* C1: the identifiers create_entity returns are pairwise distinct and strictly
\* increasing in call order, the first is 1, and 0 is neither returned nor in the
\* live-entity list.
C1_EntityIdsIncreasing ==
    /\ \A i \in 1..Len(created) : \A j \in 1..Len(created) :
           i < j => created[i] < created[j]
    /\ Cardinality(Range(created)) = Len(created)
    /\ (created # <<>> => created[1] = 1)
    /\ 0 \notin Range(created)
    /\ 0 \notin Range(entities)
    /\ (last.op = "create_entity" => last.ret = Some(created[Len(created)]))

C1_Witness ==
    /\ Len(created) >= 2
    /\ last.op = "create_entity"
    /\ last.ret = Some(2)

\* The entries of kind T an entity holds in a store.
EntriesOf(store, entity, T) == {p \in store[entity] : p.key = T}

\* C2: on a live entity e, add_component(e, v) makes get_component(e, kind of v)
\* return v, whether or not e already held a component of that kind; e then holds
\* exactly one component of that kind, and the components of other kinds and of
\* other entities are unchanged.
C2_AddThenGet ==
    [][(last'.op = "add_component" /\ last'.entity \in Range(entities) \cap DOMAIN components) =>
          LET e == last'.entity
              c == last'.arg[1]
          IN  add_component(e, c) =>
                  /\ DOMAIN components' = DOMAIN components
                  /\ Lookup(components', e, TypeIdOf(c)) = Some(c)
                  /\ Cardinality(EntriesOf(components', e, TypeIdOf(c))) = 1
                  /\ \A e2 \in DOMAIN components : \A T \in Kinds :
                         (e2 # e \/ T # TypeIdOf(c)) =>
                             EntriesOf(components', e2, T) = EntriesOf(components, e2, T)
      ]_vars

\* A replacement: the entity held another value of that kind, and another entity
\* holds a component too.
C2_Witness ==
    /\ last.op = "add_component"
    /\ last.entity \in Range(entities)
    /\ last.old # None
    /\ last.old # last.arg
    /\ Lookup(components, last.entity, last.kind) = last.arg
    /\ \E e2 \in DOMAIN components : e2 # last.entity /\ components[e2] # {}

\* C3: add_component on an identifier create_entity never returned leaves the
\* World unchanged and creates no component map for it.
C3_AddUnknownIsNoOp ==
    [][(last'.op = "add_component" /\ last'.entity \notin Range(created)) =>
          LET e == last'.entity
              c == last'.arg[1]
          IN  add_component(e, c) =>
                  /\ UNCHANGED <<next_entity_id, entities, components, systems>>
                  /\ e \notin DOMAIN components'
      ]_vars

C3_Witness ==
    /\ last.op = "add_component"
    /\ last.entity \notin Range(created)
    /\ last.entity # 0
    /\ StoreEntries(components) # {}

\* C4: get_component and get_component_mut change nothing in the World, and return
\* absent when the entity was never created or holds no component of the requested
\* kind; what they return otherwise is a component the entity holds (never a
\* default); and they can be called, and return, in every state with every argument.
C4_GetAbsent ==
    /\ [](\A e \in EntityArgs : \A T \in Kinds :
             ENABLED get_component(e, T) /\ ENABLED get_component_mut(e, T))
    /\ [][(last'.op \in {"get_component", "get_component_mut"}) =>
          LET e == last'.entity
              T == last'.kind
          IN  (get_component(e, T) \/ get_component_mut(e, T)) =>
                  /\ UNCHANGED <<next_entity_id, entities, components, systems>>
                  /\ (e \notin Range(created) => last'.ret = None)
                  /\ (e \in DOMAIN components /\ EntriesOf(components, e, T) = {}
                          => last'.ret = None)
                  /\ (last'.ret # None =>
                          /\ e \in DOMAIN components
                          /\ \E p \in components[e] :
                                 p.key = T /\ last'.ret = Some(p.value))
       ]_vars

\* A live entity holding a component of another kind was asked for a kind it lacks.
C4_Witness ==
    /\ last.op \in {"get_component", "get_component_mut"}
    /\ last.ret = None
    /\ last.entity \in Range(created)
    /\ components[last.entity] # {}

\* C5: the keys of the component store are exactly the identifiers in the
\* live-entity list.
C5_StoreKeysAreEntities == DOMAIN components = Range(entities)

C5_Witness ==
    /\ Len(entities) = 2
    /\ \E e \in DOMAIN components : components[e] = {}
    /\ \E e \in DOMAIN components : components[e] # {}
    /\ last.op = "add_component"
    /\ last.entity \notin Range(entities)

\* C6: create_entity appends the new identifier at the end of the live-entity list,
\* gives it an empty component map and returns it, leaving the earlier entities,
\* their order and their components as they were; nothing in the World can make it
\* fail (below the model's bound on the number of entities it is always enabled).
C6_CreateEntityFrame ==
    /\ [][create_entity =>
              /\ entities' = Append(entities, next_entity_id)
              /\ last'.ret = Some(next_entity_id)
              /\ next_entity_id \notin DOMAIN components
              /\ DOMAIN components' = DOMAIN components \cup {next_entity_id}
              /\ components'[next_entity_id] = {}
              /\ \A e \in DOMAIN components : components'[e] = components[e]
              /\ systems' = systems
       ]_vars
    /\ [](next_entity_id <= MaxEntities => ENABLED create_entity)

C6_Witness ==
    /\ last.op = "create_entity"
    /\ Len(entities) >= 2
    /\ \E e \in DOMAIN components : components[e] # {}

----------------------------------------------------------------------------
(* World::update: dispatch *)

UpdateFrames == {k \in 1..Len(stack) : stack[k].fn = "World::update"}

SystemFrames == {k \in 1..Len(stack) : stack[k].fn = "System::update"}

\* What one call of World::update over n systems has invoked once it is done.
EachOnceInOrder(n, delta_time) == [j \in 1..n |-> <<j, delta_time>>]

\* C7: one call of World::update invokes every system of the list exactly once, in
\* list order, each with the call's delta_time, and returns only after the last:
\* at any moment a call has invoked a prefix of the list, the system it is running
\* being the last of that prefix, and a call that returned has invoked the whole
\* list.
C7_DispatchInOrder ==
    /\ \A k \in UpdateFrames :
           LET f == stack[k]
           IN  /\ f.invoked = EachOnceInOrder(Len(f.invoked), f.delta_time)
               /\ Len(f.invoked) <= Len(systems)
               /\ Len(f.invoked) = f.i + (IF k < Len(stack) THEN 1 ELSE 0)
    /\ \A k \in SystemFrames :
           /\ k - 1 \in UpdateFrames
           /\ stack[k].sys = stack[k - 1].i + 1
           /\ stack[k].delta_time = stack[k - 1].delta_time
    /\ (finished # None =>
           finished[1].invoked = EachOnceInOrder(Len(systems), finished[1].delta_time))

\* An outermost call over two systems, one of which changed the World, has returned.
C7_Witness ==
    /\ finished # None
    /\ finished[1].depth = 1
    /\ Len(finished[1].invoked) = 2
    /\ stack = <<>>
    /\ entities # <<>>

----------------------------------------------------------------------------
(* PhysicsWorld::update *)

RECURSIVE SumSteps(_)
SumSteps(log) == IF log = <<>> THEN 0 ELSE log[1].steps + SumSteps(Tail(log))

RECURSIVE SumDeltas(_)
SumDeltas(log) == IF log = <<>> THEN 0 ELSE log[1].delta_time + SumDeltas(Tail(log))

\* C9 (as claimed): the residual of one update is kept for the next, so over any
\* sequence of updates with non-negative frame times the number of physics steps
\* run is the number of whole fixed steps in the summed frame times.
C9_ResidualCarried ==
    (\A k \in 1..Len(phys_log) : phys_log[k].delta_time >= 0) =>
        SumSteps(phys_log) = SumDeltas(phys_log) \div time_step

\* C10: one update runs a physics step for every fixed step it subtracts from the
\* accumulated time, runs none when that time is below one fixed step, and leaves
\* a residual strictly below one fixed step (non-negative once a step has run).
C10_LoopLeavesLessThanAStep ==
    \A k \in 1..Len(phys_log) :
        LET u == phys_log[k]
        IN  /\ u.steps >= 0
            /\ u.residual = u.delta_time - u.steps * time_step
            /\ u.residual < time_step
            /\ (u.delta_time < time_step => u.steps = 0)
            /\ (u.steps > 0 => u.residual >= 0)

\* Updates of zero steps, of one step at exactly the fixed step, and of two steps
\* with a residual.
C10_Witness ==
    /\ \E k \in 1..Len(phys_log) : phys_log[k].steps = 0 /\ phys_log[k].delta_time > 0
    /\ \E k \in 1..Len(phys_log) : phys_log[k].steps = 1 /\ phys_log[k].residual = 0
    /\ \E k \in 1..Len(phys_log) : phys_log[k].steps = 2 /\ phys_log[k].residual > 0

----------------------------------------------------------------------------
(* Collision: AABB pairs *)

\* How far interval a must be moved along its axis, one way or the other, for it
\* no longer to reach into interval b (touching allowed): the depth to which the
\* two overlap.
StopsReaching(d, a_min, a_max, b_min, b_max) == a_max - d <= b_min \/ a_min + d >= b_max

Depth(a_min, a_max, b_min, b_max) ==
    LET far == Abs(a_max - b_min) + Abs(b_max - a_min)
    IN  CHOOSE d \in 0..far :
            /\ StopsReaching(d, a_min, a_max, b_min, b_max)
            /\ \A d2 \in 0..(d - 1) : ~StopsReaching(d2, a_min, a_max, b_min, b_max)

DepthX(a, b) == Depth(a.x, a.x + a.width, b.x, b.x + b.width)
DepthY(a, b) == Depth(a.y, a.y + a.height, b.y, b.y + b.height)

Resolved == geo.op = "resolve_aabb_collision" /\ geo.result # None

AlongX(info) == info.normal_x # 0 /\ info.normal_y = 0 /\ info.penetration_y = 0
AlongY(info) == info.normal_y # 0 /\ info.normal_x = 0 /\ info.penetration_x = 0

\* A box of the data model: width and height are not negative.
WellFormed(aabb) == aabb.width >= 0 /\ aabb.height >= 0

Degenerate(aabb) == aabb.width <= 0 \/ aabb.height <= 0

\* C11 (as claimed): the separation is along the axis of the smaller overlap, and
\* along X when the two overlaps are equal.
C11_TieSeparatesOnX ==
    Resolved =>
        LET info == geo.result[1]
            dx == DepthX(geo.a, geo.b)
            dy == DepthY(geo.a, geo.b)
        IN  /\ (dx < dy => AlongX(info))
            /\ (dy < dx => AlongY(info))
            /\ (dx = dy => AlongX(info))

\* C11 (amended): the separation is along the axis of the smaller overlap, and
\* along Y (normal_x = 0, penetration_x = 0) when the two overlaps are equal.
C11_TieSeparatesOnY ==
    Resolved =>
        LET info == geo.result[1]
            dx == DepthX(geo.a, geo.b)
            dy == DepthY(geo.a, geo.b)
        IN  /\ (dx < dy => AlongX(info))
            /\ (dy < dx => AlongY(info))
            /\ (dx = dy => AlongY(info))

\* Two boxes overlapping equally, and not by zero, on both axes.
C11_Witness ==
    /\ Resolved
    /\ DepthX(geo.a, geo.b) = DepthY(geo.a, geo.b)
    /\ DepthX(geo.a, geo.b) > 0
    /\ geo.result[1].normal_y # 0

\* C12: on the separation axis the normal is -1 when a's centre is strictly below
\* b's and +1 otherwise, and the penetration there is the overlap times the normal;
\* AABB(0,0,10,10) against AABB(5,0,10,10) separates along X with normal_x = -1 and
\* penetration_x = -5.
C12_NormalFromCentres ==
    Resolved =>
        LET info == geo.result[1]
            a == geo.a
            b == geo.b
        IN  /\ (info.normal_x # 0 =>
                   /\ info.normal_x = (IF 2 * a.x + a.width < 2 * b.x + b.width THEN -1 ELSE 1)
                   /\ info.penetration_x = DepthX(a, b) * info.normal_x)
            /\ (info.normal_y # 0 =>
                   /\ info.normal_y = (IF 2 * a.y + a.height < 2 * b.y + b.height THEN -1 ELSE 1)
                   /\ info.penetration_y = DepthY(a, b) * info.normal_y)
            /\ (info.normal_x # 0 \/ info.normal_y # 0)
            /\ ((a = AABB(0, 0, 10, 10) /\ b = AABB(5, 0, 10, 10)) =>
                   /\ AlongX(info)
                   /\ info.normal_x = -1
                   /\ info.penetration_x = -5)

C12_Witness ==
    /\ Resolved
    /\ geo.a = AABB(0, 0, 10, 10)
    /\ geo.b = AABB(5, 0, 10, 10)
    /\ geo.result[1].penetration_x = -5

\* C13: every CollisionInfo returned has an axis-aligned unit normal, no
\* penetration on the other axis, and on the separation axis a penetration whose
\* magnitude is the overlap there, which is not negative.
C13_AxisAlignedUnitNormal ==
    Resolved =>
        LET info == geo.result[1]
        IN  /\ \/ info.normal_x \in {-1, 1} /\ info.normal_y = 0 /\ info.penetration_y = 0
               \/ info.normal_y \in {-1, 1} /\ info.normal_x = 0 /\ info.penetration_x = 0
            /\ (info.normal_x # 0 =>
                   Abs(info.penetration_x) = DepthX(geo.a, geo.b) /\ DepthX(geo.a, geo.b) >= 0)
            /\ (info.normal_y # 0 =>
                   Abs(info.penetration_y) = DepthY(geo.a, geo.b) /\ DepthY(geo.a, geo.b) >= 0)

\* A box of positive size lying within the extent of the other on the separation
\* axis, so that the overlap is more than the length the two have in common.
C13_Witness ==
    /\ Resolved
    /\ geo.result[1].normal_x = 1
    /\ geo.result[1].penetration_x = 1
    /\ geo.a.width > 0 /\ geo.a.height > 0
    /\ geo.b.width = 0 /\ geo.b.height > 0
    /\ geo.a.x < geo.b.x /\ geo.b.x < geo.a.x + geo.a.width

\* C14: resolve_aabb_collision(a, b) returns no collision exactly when
\* a.intersects(b) is false; boxes that only touch along an edge get a
\* CollisionInfo, of zero penetration.
C14_NoneIffDisjoint ==
    geo.op = "resolve_aabb_collision" =>
        LET a == geo.a
            b == geo.b
        IN  /\ (geo.result = None <=> ~intersects(a, b))
            /\ ((/\ WellFormed(a) /\ WellFormed(b)
                 /\ a.x + a.width = b.x
                 /\ a.y < b.y + b.height /\ b.y < a.y + a.height)
                    => /\ geo.result # None
                       /\ geo.result[1].penetration_x = 0
                       /\ geo.result[1].penetration_y = 0)

\* Two boxes of positive size that share an edge and nothing more.
C14_Witness ==
    /\ Resolved
    /\ geo.a.width > 0 /\ geo.a.height > 0 /\ geo.b.width > 0 /\ geo.b.height > 0
    /\ geo.a.x + geo.a.width = geo.b.x
    /\ geo.a.y = geo.b.y /\ geo.a.height = geo.b.height
    /\ geo.result[1].penetration_x = 0

\* C15 (as claimed): a box of zero or negative width or height gives, against any
\* other box, no collision or a penetration of zero.
C15_DegenerateEmptyOverlap ==
    (geo.op = "resolve_aabb_collision" /\ (Degenerate(geo.a) \/ Degenerate(geo.b))) =>
        \/ geo.result = None
        \/ geo.result[1].penetration_x = 0 /\ geo.result[1].penetration_y = 0

\* C15 (amended): a box of zero or negative width or height is accepted; against
\* any other box resolve_aabb_collision gives no collision or a CollisionInfo whose
\* penetration, on one axis only, has the magnitude of the overlap on that axis,
\* which is zero only where the boxes end at the same coordinate and is not zero
\* for a box of zero width that lies inside the other box.
C15_DegenerateAccepted ==
    /\ (geo.op = "aabb_vs_aabb" => geo.result \in BOOLEAN)
    /\ ((geo.op = "resolve_aabb_collision" /\ (Degenerate(geo.a) \/ Degenerate(geo.b))) =>
           LET a == geo.a
               b == geo.b
           IN  \/ geo.result = None
               \/ /\ Len(geo.result) = 1
                  /\ LET info == geo.result[1]
                     IN  \/ /\ AlongX(info)
                            /\ Abs(info.penetration_x) = DepthX(a, b)
                            /\ (info.penetration_x = 0 =>
                                   a.x + a.width = b.x \/ b.x + b.width = a.x)
                            /\ ((/\ a.width = 0 /\ b.x < a.x /\ a.x < b.x + b.width)
                                    => info.penetration_x # 0)
                         \/ /\ AlongY(info)
                            /\ Abs(info.penetration_y) = DepthY(a, b)
                            /\ (info.penetration_y = 0 =>
                                   a.y + a.height = b.y \/ b.y + b.height = a.y))

\* A box of zero width inside a box of positive size, with a penetration.
C15_Witness ==
    /\ Resolved
    /\ geo.a.width = 0 /\ geo.a.height > 0
    /\ geo.b.width > 0 /\ geo.b.height > 0
    /\ geo.b.x < geo.a.x /\ geo.a.x < geo.b.x + geo.b.width
    /\ geo.result[1].penetration_x # 0

\* Two closed intervals have a point in common.
IntervalsMeet(lo1, hi1, lo2, hi2) == (lo1..hi1) \cap (lo2..hi2) # {}

\* C16: for boxes of the data model, intersects / aabb_vs_aabb is true exactly when
\* the closed x-intervals and the closed y-intervals of the two boxes both have a
\* point in common, touching edges and corners included; swapping the boxes gives
\* the same answer; AABB(0,0,10,10) intersects AABB(5,5,10,10) and not
\* AABB(20,20,5,5).
C16_ClosedIntervalOverlap ==
    geo.op = "aabb_vs_aabb" =>
        LET a == geo.a
            b == geo.b
        IN  /\ ((WellFormed(a) /\ WellFormed(b)) =>
                   (geo.result <=>
                       /\ IntervalsMeet(a.x, a.x + a.width, b.x, b.x + b.width)
                       /\ IntervalsMeet(a.y, a.y + a.height, b.y, b.y + b.height)))
            /\ geo.result = aabb_vs_aabb(b, a)
            /\ ((a = AABB(0, 0, 10, 10) /\ b = AABB(5, 5, 10, 10)) => geo.result)
            /\ ((a = AABB(0, 0, 10, 10) /\ b = AABB(20, 20, 5, 5)) => ~geo.result)

\* Two boxes of positive size that meet at one corner only.
C16_Witness ==
    /\ geo.op = "aabb_vs_aabb"
    /\ geo.result
    /\ geo.a.width > 0 /\ geo.a.height > 0 /\ geo.b.width > 0 /\ geo.b.height > 0
    /\ geo.a.x + geo.a.width = geo.b.x
    /\ geo.a.y + geo.a.height = geo.b.y

----------------------------------------------------------------------------
(* Collision: rays and circles *)

\* a <= b on f32: false when either is NaN.
Le(a, b) == a.k # "nan" /\ b.k # "nan" /\ ~Lt(b, a)

\* The distances at which the ray enters and leaves the slab of the box on one
\* axis: the lesser and the greater of the distances to its two edges.
EntryOnAxis(o, d, lo, hi) == f32_min(slab_distance(lo - o, d), slab_distance(hi - o, d))
ExitOnAxis(o, d, lo, hi) == f32_max(slab_distance(lo - o, d), slab_distance(hi - o, d))

LargestEntry ==
    f32_max(EntryOnAxis(geo.ray_x, geo.ray_dx, geo.aabb.x, geo.aabb.x + geo.aabb.width),
            EntryOnAxis(geo.ray_y, geo.ray_dy, geo.aabb.y, geo.aabb.y + geo.aabb.height))

SmallestExit ==
    f32_min(ExitOnAxis(geo.ray_x, geo.ray_dx, geo.aabb.x, geo.aabb.x + geo.aabb.width),
            ExitOnAxis(geo.ray_y, geo.ray_dy, geo.aabb.y, geo.aabb.y + geo.aabb.height))

OriginStrictlyInside ==
    /\ geo.aabb.x < geo.ray_x /\ geo.ray_x < geo.aabb.x + geo.aabb.width
    /\ geo.aabb.y < geo.ray_y /\ geo.ray_y < geo.aabb.y + geo.aabb.height

\* Some point of the ray, at a distance of T halves, lies in the box.
RayReachesBox ==
    LET far == 2 * (Abs(geo.aabb.x - geo.ray_x) + Abs(geo.aabb.x + geo.aabb.width - geo.ray_x)
                    + Abs(geo.aabb.y - geo.ray_y) + Abs(geo.aabb.y + geo.aabb.height - geo.ray_y))
    IN  \E T \in 0..far :
            /\ 2 * geo.aabb.x <= 2 * geo.ray_x + T * geo.ray_dx
            /\ 2 * geo.ray_x + T * geo.ray_dx <= 2 * (geo.aabb.x + geo.aabb.width)
            /\ 2 * geo.aabb.y <= 2 * geo.ray_y + T * geo.ray_dy
            /\ 2 * geo.ray_y + T * geo.ray_dy <= 2 * (geo.aabb.y + geo.aabb.height)

\* What is said of the value returned, and of the two rays from (0,0) against
\* AABB(5,-1,2,2).
RayValueAndExamples ==
    /\ ((geo.result # None /\ ~Lt(LargestEntry, Zero)) => geo.result[1] = LargestEntry)
    /\ ((geo.result # None /\ OriginStrictlyInside) => geo.result[1] = SmallestExit)
    /\ ((geo.result # None /\ Lt(LargestEntry, Zero)) =>
           /\ geo.result[1] = SmallestExit
           /\ (WellFormed(geo.aabb) => contains_point(geo.aabb, geo.ray_x, geo.ray_y)))
    /\ ((geo.ray_x = 0 /\ geo.ray_y = 0 /\ geo.aabb = AABB(5, -1, 2, 2)) =>
           /\ ((geo.ray_dx = 1 /\ geo.ray_dy = 0) => geo.result = Some(Fin(2 * 5)))
           /\ ((geo.ray_dx = -1 /\ geo.ray_dy = 0) => geo.result = None))
    /\ ((geo.ray_dx # 0 /\ geo.ray_dy # 0 /\ WellFormed(geo.aabb)) =>
           (geo.result # None <=> RayReachesBox))

\* Every distance is NaN: a ray without direction whose origin is a box without
\* size.
AllDistancesNaN ==
    /\ geo.ray_dx = 0 /\ geo.ray_dy = 0
    /\ geo.aabb.width = 0 /\ geo.aabb.height = 0
    /\ geo.aabb.x = geo.ray_x /\ geo.aabb.y = geo.ray_y

\* C17 (as claimed): ray_vs_aabb returns a hit exactly when the largest per-axis
\* entry distance is at most the smallest per-axis exit distance and the exit
\* distance is not negative; the hit is the entry distance when that is not
\* negative and the exit distance when the origin is inside the box; from (0,0)
\* against AABB(5,-1,2,2), direction (1,0) gives 5 and direction (-1,0) no hit.
C17_HitIffEntryBeforeExit ==
    geo.op = "ray_vs_aabb" =>
        /\ (geo.result # None <=> (Le(LargestEntry, SmallestExit) /\ ~Lt(SmallestExit, Zero)))
        /\ RayValueAndExamples

\* C17 (amended): as claimed, except that a ray of direction (0,0) whose origin is
\* a box of zero width and height, for which every distance is NaN, gets a hit of
\* NaN.
C17_HitIffEntryBeforeExitOrNaN ==
    geo.op = "ray_vs_aabb" =>
        /\ (AllDistancesNaN => geo.result = Some(NaN))
        /\ (~AllDistancesNaN =>
               (geo.result # None <=> (Le(LargestEntry, SmallestExit) /\ ~Lt(SmallestExit, Zero))))
        /\ (geo.result # None /\ geo.result[1] = NaN => AllDistancesNaN)
        /\ RayValueAndExamples

\* A slanted ray from strictly inside a box: the hit is the exit distance.
C17_Witness ==
    /\ geo.op = "ray_vs_aabb"
    /\ OriginStrictlyInside
    /\ geo.ray_dx # 0 /\ geo.ray_dy # 0
    /\ geo.result # None
    /\ geo.result[1] = SmallestExit
    /\ Lt(LargestEntry, Zero) /\ Lt(Zero, SmallestExit)

SqDist(px, py, qx, qy) == (px - qx) * (px - qx) + (py - qy) * (py - qy)

\* The least squared distance from a point to the points of a box.
NearestSq(cx, cy, aabb) ==
    LET ds == {SqDist(px, py, cx, cy) : px \in aabb.x..(aabb.x + aabb.width),
                                       py \in aabb.y..(aabb.y + aabb.height)}
    IN  CHOOSE m \in ds : \A d \in ds : m <= d

Clamp(v, lo, hi) == IF v < lo THEN lo ELSE IF v > hi THEN hi ELSE v

\* C18: for a box of the data model, circle_vs_aabb(cx, cy, r, box) is true exactly
\* when the centre clamped to the extents of the box, which is the point of the box
\* nearest to the centre, is at squared distance at most r*r from the centre; it is
\* true whenever the centre lies in or on the box.
C18_NearestPointWithinRadius ==
    geo.op = "circle_vs_aabb" =>
        LET b == geo.aabb
            nx == Clamp(geo.cx, b.x, b.x + b.width)
            ny == Clamp(geo.cy, b.y, b.y + b.height)
        IN  /\ (WellFormed(b) =>
                   /\ SqDist(nx, ny, geo.cx, geo.cy) = NearestSq(geo.cx, geo.cy, b)
                   /\ (geo.result <=> SqDist(nx, ny, geo.cx, geo.cy) <= geo.radius * geo.radius))
            /\ ((/\ b.x <= geo.cx /\ geo.cx <= b.x + b.width
                 /\ b.y <= geo.cy /\ geo.cy <= b.y + b.height) => geo.result)

\* A circle outside the box that reaches its nearest point and no further.
C18_Witness ==
    /\ geo.op = "circle_vs_aabb"
    /\ geo.result
    /\ WellFormed(geo.aabb)
    /\ geo.radius > 0
    /\ NearestSq(geo.cx, geo.cy, geo.aabb) = geo.radius * geo.radius

----------------------------------------------------------------------------
(* Rigid bodies *)

LastCall(log) == log[Len(log)]

\* The calls made on the body since it was made.
CallsAfterMaking == {body_log[i].op : i \in 2..Len(body_log)}

\* C19: a body made by RigidBody::static_body has velocity (0,0) and acceleration
\* (0,0) after any sequence of apply_force and update calls.
C19_StaticBodyAtRest ==
    (/\ body_log # <<>>
     /\ body_log[1].op = "static_body"
     /\ CallsAfterMaking \subseteq {"apply_force", "update"}) =>
        /\ body[1].velocity_x = Whole(0)
        /\ body[1].velocity_y = Whole(0)
        /\ body[1].acceleration_x = Whole(0)
        /\ body[1].acceleration_y = Whole(0)

\* A static body that was pushed and then stepped over a positive time.
C19_Witness ==
    /\ Len(body_log) = 3
    /\ body_log[1].op = "static_body"
    /\ body_log[2] = BodyCall("apply_force", <<4, 0>>)
    /\ body_log[3] = BodyCall("update", <<1>>)
    /\ body[1].velocity_x = Whole(0)

\* C20: on a body that is not static and has positive mass, apply_force(f) adds
\* f/mass to the acceleration, so that forces applied before one update sum, and
\* update(dt) sets the velocity to (velocity + acceleration*dt)*(1 - friction*dt)
\* and the acceleration to zero, so that a second update with no force in between
\* only damps the velocity; with mass 2, friction 0, force (4,0) and dt 1 the
\* velocity becomes (2,0).
C20_ForceThenIntegrate ==
    [][(body_log' # body_log /\ Len(body_log') >= 2) =>
        LET call == LastCall(body_log')
            before == body[1]
            after == body'[1]
            damping == RatSub(Whole(1), RatMul(before.friction, Whole(call.args[1])))
        IN  (~before.is_static /\ before.mass.k = "fin" /\ before.mass.v > 0) =>
               /\ (call.op = "apply_force" =>
                      /\ after.acceleration_x = RatAdd(before.acceleration_x, Rat(call.args[1], before.mass.v))
                      /\ after.acceleration_y = RatAdd(before.acceleration_y, Rat(call.args[2], before.mass.v))
                      /\ after.velocity_x = before.velocity_x
                      /\ after.velocity_y = before.velocity_y)
               /\ ((/\ call.op = "apply_force"
                    /\ Len(body_log) >= 2
                    /\ LastCall(body_log).op = "apply_force"
                    /\ (Len(body_log) = 2 \/ body_log[Len(body_log) - 1].op = "update")) =>
                      /\ after.acceleration_x =
                             Rat(LastCall(body_log).args[1] + call.args[1], before.mass.v)
                      /\ after.acceleration_y =
                             Rat(LastCall(body_log).args[2] + call.args[2], before.mass.v))
               /\ (call.op = "update" =>
                      /\ after.velocity_x =
                             RatMul(RatAdd(before.velocity_x,
                                           RatMul(before.acceleration_x, Whole(call.args[1]))), damping)
                      /\ after.velocity_y =
                             RatMul(RatAdd(before.velocity_y,
                                           RatMul(before.acceleration_y, Whole(call.args[1]))), damping)
                      /\ after.acceleration_x = Whole(0)
                      /\ after.acceleration_y = Whole(0))
               /\ ((call.op = "update" /\ LastCall(body_log).op = "update") =>
                      /\ after.velocity_x = RatMul(before.velocity_x, damping)
                      /\ after.velocity_y = RatMul(before.velocity_y, damping))
               /\ (body_log' = <<BodyCall("new", <<2>>), BodyCall("set_friction", <<Whole(0)>>),
                                BodyCall("apply_force", <<4, 0>>), BodyCall("update", <<1>>)>> =>
                      /\ after.velocity_x = Whole(2)
                      /\ after.velocity_y = Whole(0))]_vars

\* The body of mass 2 without friction, pushed once by (4,0) and stepped over 1.
C20_Witness ==
    /\ body_log = <<BodyCall("new", <<2>>), BodyCall("set_friction", <<Whole(0)>>),
                    BodyCall("apply_force", <<4, 0>>), BodyCall("update", <<1>>)>>
    /\ body[1].velocity_x = Whole(2)
    /\ body[1].acceleration_x = Whole(0)

----------------------------------------------------------------------------
(* Sprites in the World *)

\* The entries an entity holds under one kind, none for an unknown entity.
Held(store, entity, kind) ==
    IF entity \in DOMAIN store THEN {p \in store[entity] : p.key = kind} ELSE {}

\* Everything in the store but what the entity holds under the kind.
Others(store, entity, kind) == StoreEntries(store) \ {<<entity, p>> : p \in Held(store, entity, kind)}

\* C21: set_position (set_color) leaves the World as it is when the entity is
\* unknown or has no Transform (Sprite); otherwise it gives the x and y of that
\* entity's Transform (the four colour channels of its Sprite) the values passed
\* and changes nothing else in the World.
C21_SetPositionAndColorFrame ==
    [][(last'.op \in {"set_position", "set_color"}) =>
        LET entity == last'.entity
            kind == last'.kind
            arg == last'.arg[1]
        IN  /\ UNCHANGED <<next_entity_id, entities, systems>>
            /\ DOMAIN components' = DOMAIN components
            /\ Others(components', entity, kind) = Others(components, entity, kind)
            /\ ((entity \notin Range(entities) \/ Held(components, entity, kind) = {})
                    => components' = components)
            /\ ((entity \in Range(entities) /\ Held(components, entity, kind) # {}) =>
                   /\ Cardinality(Held(components', entity, kind)) = 1
                   /\ \A p \in Held(components, entity, kind), q \in Held(components', entity, kind) :
                          IF kind = "Transform"
                          THEN /\ q.value.x = arg[1] /\ q.value.y = arg[2]
                               /\ q.value.rotation = p.value.rotation
                               /\ q.value.scale_x = p.value.scale_x
                               /\ q.value.scale_y = p.value.scale_y
                               /\ q.value.kind = "Transform"
                          ELSE /\ q.value.color_r = arg[1] /\ q.value.color_g = arg[2]
                               /\ q.value.color_b = arg[3] /\ q.value.color_a = arg[4]
                               /\ q.value.width = p.value.width
                               /\ q.value.height = p.value.height
                               /\ q.value.texture_id = p.value.texture_id
                               /\ q.value.kind = "Sprite")]_vars

\* A Transform that was turned and scaled has been moved, on an entity that also
\* holds a Sprite.
C21_Witness ==
    /\ last.op = "set_position"
    /\ last.old # None
    /\ last.old[1].rotation = 3
    /\ last.old[1].x # last.arg[1][1]
    /\ Held(components, last.entity, "Transform") # {}
    /\ \A p \in Held(components, last.entity, "Transform") :
           p.value.x = last.arg[1][1] /\ p.value.rotation = 3
    /\ Held(components, last.entity, "Sprite") # {}

----------------------------------------------------------------------------
(* Gravity *)

\* The calls of a history that give the PhysicsWorld a gravity, and the value the
\* latest of them gave: -9.8 for new().
GivesGravity(call) == call.op \in {"new", "new_with_gravity", "set_gravity"}

RECURSIVE GravityGiven(_)
GravityGiven(calls) ==
    LET call == calls[Len(calls)]
    IN  IF ~GivesGravity(call) THEN GravityGiven(SubSeq(calls, 1, Len(calls) - 1))
        ELSE IF call.op = "new" THEN -98 ELSE call.args[1]

\* C22: a PhysicsWorld made by new() has gravity -9.8 and fixed step 1/60 s;
\* get_gravity returns the value passed to the latest set_gravity, or what the
\* constructor gave if there was none; update, check_collision and point_in_aabb
\* change neither the gravity nor the fixed step.
C22_GravityIsLastSet ==
    [][(phys_calls' # phys_calls) =>
        LET call == phys_calls'[Len(phys_calls')]
        IN  /\ (phys_calls[1].op = "new" /\ Len(phys_calls) = 1 => gravity = -98 /\ time_step = 5)
            /\ (call.op = "get_gravity" => call.ret = Some(GravityGiven(phys_calls)))
            /\ (call.op = "get_gravity" => call.ret = Some(GravityGiven(phys_calls')))
            /\ (call.op \in {"update", "check_collision", "point_in_aabb", "get_gravity"}
                   => gravity' = gravity /\ time_step' = time_step)
            /\ time_step' = 5]_vars

\* A gravity was set on a PhysicsWorld made by new(), a frame was stepped, and the
\* gravity was read.
C22_Witness ==
    /\ Len(phys_calls) = 4
    /\ phys_calls[1].op = "new"
    /\ phys_calls[2].op = "set_gravity"
    /\ phys_calls[3].op = "update"
    /\ phys_calls[3].args[1] > 0
    /\ phys_calls[4].op = "get_gravity"
    /\ phys_calls[4].ret = Some(phys_calls[2].args[1])
    /\ gravity # -98

----------------------------------------------------------------------------
(* Input *)

\* The events among the first n of a history that press or release the key (or
\* button) k.
EventsOn(log, n, ops, k) == {i \in 1..n : log[i].op \in ops /\ log[i].args[1] = k}

Latest(indices) == CHOOSE i \in indices : \A j \in indices : j <= i

\* By the history, k is down after the first n events: the latest event on it is
\* a down event.
DownAfter(log, n, down, up, k) ==
    LET on == EventsOn(log, n, {down, up}, k)
    IN  on # {} /\ log[Latest(on)].op = down

ClearsEdges(event) == event.op \in {"update", "GameEngine::update"}

\* k was down when some update ran and has not been released since.
HeldSinceUpdate(log, down, up, k) ==
    \E i \in 1..Len(log) :
        /\ ClearsEdges(log[i])
        /\ DownAfter(log, i, down, up, k)
        /\ EventsOn(log, Len(log), {up}, k) \cap (i..Len(log)) = {}

\* What a down event and an up event do to the three sets of keys (or buttons),
\* given whether the history has k down when the event arrives.
EdgeOnDown(k, was_down, pressed2, just1, just2, released1, released2) ==
    /\ ((k \in just2 /\ k \notin just1) => ~was_down)
    /\ (~was_down => just2 = just1 \cup {k})
    /\ (was_down => just2 = just1)
    /\ released2 = released1
    /\ k \in pressed2

EdgeOnUp(k, was_down, pressed2, just1, just2, released1, released2) ==
    /\ ((k \in released2 /\ k \notin released1) => was_down)
    /\ (was_down => released2 = released1 \cup {k})
    /\ (~was_down => released2 = released1)
    /\ just2 = just1
    /\ k \notin pressed2

\* C23: a down event marks the key (mouse button) just-pressed only if it arrives
\* while the key is not pressed, an up event marks it just-released only if it
\* arrives while the key is pressed, and a key that was held when an update ran and
\* has not been released since is not just-pressed, however many down events
\* arrive for it.
C23_EdgeTriggered ==
    [][(input_log' # input_log) =>
        LET n == Len(input_log)
            event == input_log'[n + 1]
            k == event.args[1]
        IN  /\ (event.op = "handle_key_down" =>
                   EdgeOnDown(k, DownAfter(input_log, n, "handle_key_down", "handle_key_up", k),
                              input'.keys_pressed,
                              input.keys_just_pressed, input'.keys_just_pressed,
                              input.keys_just_released, input'.keys_just_released))
            /\ (event.op = "handle_key_up" =>
                   EdgeOnUp(k, DownAfter(input_log, n, "handle_key_down", "handle_key_up", k),
                            input'.keys_pressed,
                            input.keys_just_pressed, input'.keys_just_pressed,
                            input.keys_just_released, input'.keys_just_released))
            /\ (event.op = "handle_mouse_down" =>
                   EdgeOnDown(k, DownAfter(input_log, n, "handle_mouse_down", "handle_mouse_up", k),
                              input'.mouse_buttons_pressed,
                              input.mouse_buttons_just_pressed, input'.mouse_buttons_just_pressed,
                              input.mouse_buttons_just_released, input'.mouse_buttons_just_released))
            /\ (event.op = "handle_mouse_up" =>
                   EdgeOnUp(k, DownAfter(input_log, n, "handle_mouse_down", "handle_mouse_up", k),
                            input'.mouse_buttons_pressed,
                            input.mouse_buttons_just_pressed, input'.mouse_buttons_just_pressed,
                            input.mouse_buttons_just_released, input'.mouse_buttons_just_released))
            /\ \A key \in KeyArgs :
                   HeldSinceUpdate(input_log', "handle_key_down", "handle_key_up", key)
                       => key \in input'.keys_pressed /\ key \notin input'.keys_just_pressed
            /\ \A button \in ButtonArgs :
                   HeldSinceUpdate(input_log', "handle_mouse_down", "handle_mouse_up", button)
                       => /\ button \in input'.mouse_buttons_pressed
                          /\ button \notin input'.mouse_buttons_just_pressed]_vars

\* A key went down, an update ran, and the key went down twice more while held.
C23_Witness ==
    /\ Len(input_log) = 4
    /\ input_log[1] = InputEvent("handle_key_down", <<87>>)
    /\ input_log[2] = InputEvent("update", <<>>)
    /\ input_log[3] = InputEvent("handle_key_down", <<87>>)
    /\ input_log[4] = InputEvent("handle_key_down", <<87>>)
    /\ 87 \in input.keys_pressed
    /\ 87 \notin input.keys_just_pressed

\* C24: after InputManager::update, and so after GameEngine::update, no key and
\* no mouse button is just-pressed or just-released, and the held keys, the held
\* buttons and the mouse position are what they were before the call.
C24_UpdateClearsEdgesOnly ==
    [][(input_log' # input_log /\ ClearsEdges(input_log'[Len(input_log')])) =>
        /\ input'.keys_just_pressed = {}
        /\ input'.keys_just_released = {}
        /\ input'.mouse_buttons_just_pressed = {}
        /\ input'.mouse_buttons_just_released = {}
        /\ input'.keys_pressed = input.keys_pressed
        /\ input'.mouse_buttons_pressed = input.mouse_buttons_pressed
        /\ input'.mouse_position = input.mouse_position]_vars

\* GameEngine::update has run with a key and a button held and the mouse moved.
C24_Witness ==
    /\ Len(input_log) = 4
    /\ input_log[1].op = "handle_key_down"
    /\ input_log[2].op = "handle_mouse_down"
    /\ input_log[3] = InputEvent("handle_mouse_move", <<3, 4>>)
    /\ input_log[4].op = "GameEngine::update"
    /\ input.keys_pressed # {}
    /\ input.mouse_buttons_pressed # {}
    /\ input.mouse_position = <<3, 4>>
    /\ input.keys_just_pressed = {}
    /\ input.mouse_buttons_just_pressed = {}

----------------------------------------------------------------------------
(* GameEngine *)

\* C25: no operation registers a system: the system list is empty in every state,
\* and the World::update that GameEngine::update runs leaves the id counter, the
\* list of live entities and every component as they were.
C25_NoSystemsEver ==
    [][/\ systems = <<>>
       /\ systems' = <<>>
       /\ (input_log' # input_log =>
              /\ last'.op = "update"
              /\ next_entity_id' = next_entity_id
              /\ entities' = entities
              /\ components' = components)]_vars

\* GameEngine::update has run on a World that holds two sprites.
C25_Witness ==
    /\ last.op = "update"
    /\ input_log # <<>>
    /\ Len(entities) = 2
    /\ Cardinality(StoreEntries(components)) = 4
    /\ systems = <<>>

\* The sprite table of a GameEngine: its identifiers are those handed out, each
\* found once, and they lead to different live entities that hold a Transform and
\* a Sprite.
SpriteTableSound(table, ids, store, live) ==
    /\ \A i \in 1..Len(ids) : ids[i] = i
    /\ {p.key : p \in table} = Range(ids)
    /\ \A p, q \in table : (p.key = q.key \/ p.value = q.value) => p = q
    /\ \A p \in table :
           /\ p.value \in Range(live)
           /\ Held(store, p.value, "Transform") # {}
           /\ Held(store, p.value, "Sprite") # {}

\* C28: the sprite ids create_sprite returns are 1, 2, 3, ...; every registered id
\* leads to a live entity of its own that holds a Transform and a Sprite; and
\* set_sprite_position and set_sprite_color with an id that was never returned
\* change nothing.
C28_SpriteTable ==
    [][/\ SpriteTableSound(sprites', sprite_ids', components', entities')
       /\ (engine_last'.op = "create_sprite" /\ sprite_ids' # sprite_ids =>
              /\ engine_last'.ret = Some(Len(sprite_ids) + 1)
              /\ sprite_ids' = Append(sprite_ids, Len(sprite_ids) + 1))
       /\ ((/\ engine_last'.op \in {"set_sprite_position", "set_sprite_color"}
            /\ engine_last'.args[1] \notin Range(sprite_ids)) =>
              /\ UNCHANGED <<next_entity_id, entities, components, systems>>
              /\ UNCHANGED <<sprites, next_sprite_id, sprite_ids>>)]_vars

\* Two sprites exist and a position was set for an id that was never returned.
C28_Witness ==
    /\ sprite_ids = <<1, 2>>
    /\ Cardinality(sprites) = 2
    /\ engine_last.op = "set_sprite_position"
    /\ engine_last.args[1] \notin Range(sprite_ids)
    /\ Cardinality(StoreEntries(components)) = 4

----------------------------------------------------------------------------
(* Collision: the separation applied *)

\* Box a moved by the penetration vector of a CollisionInfo.
Translated(a, info) == [a EXCEPT !.x = a.x + info.penetration_x, !.y = a.y + info.penetration_y]

\* Two intervals share an end point and no more than that.
TouchOnly(a_min, a_max, b_min, b_max) ==
    /\ a_max = b_min \/ a_min = b_max
    /\ Depth(a_min, a_max, b_min, b_max) = 0

\* C26: for every intersecting pair of boxes, box a moved by the penetration
\* vector that resolve_aabb_collision(a, b) returns touches b on the resolution
\* axis and overlaps it there by nothing; for boxes of non-negative size,
\* resolving the moved pair again gives a penetration of zero.
C26_TranslationSeparates ==
    Resolved =>
        LET info == geo.result[1]
            b == geo.b
            moved == Translated(geo.a, info)
            again == resolve_aabb_collision(moved, b)
        IN  /\ (info.normal_x # 0 =>
                   TouchOnly(moved.x, moved.x + moved.width, b.x, b.x + b.width))
            /\ (info.normal_y # 0 =>
                   TouchOnly(moved.y, moved.y + moved.height, b.y, b.y + b.height))
            /\ (WellFormed(geo.a) /\ WellFormed(b)) =>
                   /\ again # None
                   /\ again[1].penetration_x = 0
                   /\ again[1].penetration_y = 0

\* A box lying within the other on the resolution axis is pushed out of it.
C26_Witness ==
    /\ Resolved
    /\ WellFormed(geo.a) /\ WellFormed(geo.b)
    /\ geo.result[1].normal_x # 0
    /\ geo.result[1].penetration_x # 0
    /\ geo.b.x < geo.a.x /\ geo.a.x + geo.a.width < geo.b.x + geo.b.width
    /\ geo.a.width > 0
    /\ LET moved == Translated(geo.a, geo.result[1])
       IN  moved.x + moved.width = geo.b.x \/ moved.x = geo.b.x + geo.b.width

----------------------------------------------------------------------------
(* The fixed-step loop *)

\* C27: PhysicsWorld::update terminates for every finite delta_time: a call
\* that has entered the loop returns.
C27_UpdateTerminates == (loop.pc # "idle") ~> (loop.pc = "idle")

\* C27, its reason: each pass of the loop leaves the accumulator strictly smaller.
C27_AccumulatorDecreases ==
    [][(loop.pc = "body" /\ loop'.pc = "while")
           => f32_lt(loop'.accumulator, loop.accumulator)]_vars

\* C27, the parts that hold: the fixed step is positive and is never written,
\* and a call with delta_time <= 0 runs no step.
C27_StepFixedAndNoStepForNonPositive ==
    /\ loop.time_step = one_sixtieth
    /\ ~f32_is_negative(loop.time_step) /\ ~f32_is_zero(loop.time_step)
    /\ (f32_is_negative(loop.delta_time) \/ f32_is_zero(loop.delta_time)) => loop.steps = 0

----------------------------------------------------------------------------
(* Camera *)

CameraMutators == {"set_position", "set_target", "look_at", "translate"}

\* The look-at matrix of the camera's present position, target and up.
ViewOf(c) == Mat4_look_at(c.position, c.target, c.up)

\* C29: every mutator (set_position, set_target, look_at, translate) leaves the
\* dirty flag set; whenever the flag is clear the cached matrix is the look-at
\* matrix of the present position, target and up; get_view_matrix clears the
\* flag and returns the look-at matrix of the present fields, which it changes
\* in no other way.
C29_ViewMatrixCurrent ==
    [][camera' # None =>
          LET c == camera'[1]
          IN  /\ c.op \in CameraMutators => c.dirty
              /\ ~c.dirty => c.view_matrix = ViewOf(c)
              /\ c.op = "get_view_matrix" =>
                     /\ c.ret = Some(ViewOf(c))
                     /\ ~c.dirty
                     /\ camera # None
                     /\ c.position = camera[1].position
                     /\ c.target = camera[1].target
                     /\ c.up = camera[1].up]_vars

\* get_view_matrix after a mutator moved the camera: the matrix returned is the
\* one of the new place, without NaN, and differs from the one of the start.
C29_Witness ==
    /\ camera # None
    /\ camera[1].op = "get_view_matrix"
    /\ camera[1].position # <<0, 0, 0>>
    /\ camera[1].ret = Some(ViewOf(camera[1]))
    /\ camera[1].ret[1] # Mat4_look_at(<<0, 0, 0>>, <<0, 0, -1>>, <<0, 1, 0>>)
    /\ \A i \in 1..16 : camera[1].ret[1][i] # NaN

----------------------------------------------------------------------------
(* Random *)

RangeCall == rng # None /\ rng[1].op = "range_i32"

\* C30: range_i32(min, max) returns min when min >= max, and otherwise a value
\* v with min <= v < max, whatever the state of the generator and the bounds.
C30_RangeWithin ==
    RangeCall =>
        LET min == rng[1].args[1]
            max == rng[1].args[2]
            ret == rng[1].ret[1]
        IN  /\ ~ret.panic
            /\ IF min >= max THEN ret.value = min
               ELSE min <= ret.value /\ ret.value < max

\* C30, the part that holds: the same, for draws other than i32::MIN; the
\* bounds may be as far apart as i32 allows when overflow checks are off.
C30_RangeWithinUnlessMinDrawn ==
    (RangeCall /\ rng[1].drawn # Some(i32_MIN)) =>
        LET min == rng[1].args[1]
            max == rng[1].args[2]
            ret == rng[1].ret[1]
        IN  IF min >= max THEN ret = returned(min)
            ELSE \/ ret.panic /\ i32_sub(max, min, TRUE).panic
                 \/ ~ret.panic /\ min <= ret.value /\ ret.value < max

====
